---- MODULE Spec2Model ----
(***************************************************************************)
(* A model of the notebooks of imrehg/cdei-development.                    *)
(*                                                                         *)
(* A notebook is a program run by a Jupyter kernel one code cell at a      *)
(* time, top to bottom.  The kernel's state is its namespace (name ->      *)
(* value), the objects the names refer to, what has been printed, and the  *)
(* files on disk.  One action models one code cell, with every statement   *)
(* of the cell.                                                            *)
(*                                                                         *)
(* Numbers: a rate is an exact fraction <<numerator, denominator>> in      *)
(* lowest terms; a score is an integer number of tenths (5 is 0.5).        *)
(***************************************************************************)
EXTENDS Integers, Sequences, FiniteSets, TLC

VARIABLES
    nb,     \* the notebook the kernel runs
    pc,     \* the code cell that runs next ("done" after the last one)
    ns,     \* the kernel's namespace: name -> value (or object reference)
    heap,   \* the aif360 dataset objects: reference -> fields
    out,    \* what the cells have printed, in order
    calls,  \* the calls made into the libraries and the loaded models, in order
    disk    \* the files of the artifacts directory: path -> content

vars == <<nb, pc, ns, heap, out, calls, disk>>

(***************************************************************************)
(* Bounds of the model.                                                    *)
(***************************************************************************)
\* the largest number of rows of a split in a run of a whole notebook
MaxRows == 2
\* the largest number of rows a metrics cell is run on by itself
MaxMetricRows == 3
\* rows of the test split in a run of the Pleiss notebook, which draws scores
\* three times
MaxPleissRows == 1

(***************************************************************************)
(* Python and numpy helpers.                                               *)
(***************************************************************************)
\* globals()[name] = value for every name of b
Bind(b, env) == b @@ env

Range(s) == {s[i] : i \in DOMAIN s}

\* the places of a sequence where a boolean mask is true: x[mask]
Where(mask) == {i \in DOMAIN mask : mask[i]}

RECURSIVE SetToSeq(_)
\* the members of a set of integers in increasing order
SetToSeq(S) ==
    IF S = {} THEN <<>>
    ELSE LET m == CHOOSE x \in S : \A y \in S : x <= y
         IN <<m>> \o SetToSeq(S \ {m})

\* x[mask] for a vector x and a boolean vector mask of the same length
Masked(x, mask) == [k \in 1..Cardinality(Where(mask)) |-> x[SetToSeq(Where(mask))[k]]]

\* elementwise x == v, x > v
VecEq(x, v) == [i \in DOMAIN x |-> x[i] = v]
VecGt(x, v) == [i \in DOMAIN x |-> x[i] > v]
\* (mask).astype(float): True -> 1.0, False -> 0.0
AsFloat(mask) == [i \in DOMAIN mask |-> IF mask[i] THEN 1 ELSE 0]
\* a boolean vector where numpy takes it as numbers: True == 1, False == 0
AsNum(mask) == [i \in DOMAIN mask |-> IF mask[i] THEN 1 ELSE 0]

(***************************************************************************)
(* Exact fractions.                                                        *)
(***************************************************************************)
RECURSIVE GCD(_, _)
GCD(a, b) == IF b = 0 THEN a ELSE GCD(b, a % b)

AbsInt(x) == IF x < 0 THEN 0 - x ELSE x

\* n/d in lowest terms; a zero denominator is numpy's nan (0/0)
Frac(n, d) ==
    IF d = 0 THEN <<0, 0>>
    ELSE LET g == GCD(AbsInt(n), d) IN <<n \div g, d \div g>>

IsNan(f) == f[2] = 0
FracLE(f, g) == f[1] * g[2] <= g[1] * f[2]
FracSub(f, g) ==
    IF IsNan(f) \/ IsNan(g) THEN <<0, 0>>
    ELSE Frac(f[1] * g[2] - g[1] * f[2], f[2] * g[2])
FracAbs(f) == <<AbsInt(f[1]), f[2]>>

\* f"{x:.<digits>f}" of a fraction x >= 0: the number of 10^-digits units,
\* rounded half to even; "nan" for nan
FmtFixed(f, digits) ==
    IF IsNan(f) THEN "nan"
    ELSE LET n == f[1] * (10 ^ digits)
             q == n \div f[2]
             r == n % f[2]
         IN IF 2 * r < f[2] THEN q
            ELSE IF 2 * r > f[2] THEN q + 1
            ELSE IF q % 2 = 0 THEN q ELSE q + 1

\* a call whose code is not in the repository's files, kept uninterpreted:
\* the value is the call itself
Term(fn, args) == [term |-> fn, args |-> args]

(***************************************************************************)
(* pathlib and pandas.                                                     *)
(***************************************************************************)
\* Path(s), and p / s
Path(s) == <<s>>
Div(p, s) == Append(p, s)

\* df.drop(col, axis=1): a new frame without the column; df is not changed
DfDrop(df, col) ==
    [cols |-> SelectSeq(df.cols, LAMBDA c : c # col),
     rows |-> [i \in DOMAIN df.rows |->
                 [c \in (DOMAIN df.rows[i]) \ {col} |-> df.rows[i][c]]]]

\* df.copy()
DfCopy(df) == df

\* df[col].values
Column(df, col) == [i \in DOMAIN df.rows |-> df.rows[i][col]]

NRows(df) == Len(df.rows)

(***************************************************************************)
(* fairlearn.metrics, as the library computes them for 0/1 vectors.        *)
(***************************************************************************)
\* the rows of each group of the sensitive feature
GroupRows(sf, g) == {i \in DOMAIN sf : sf[i] = g}

FracMax(S) == CHOOSE f \in S : \A g \in S : FracLE(g, f)
FracMin(S) == CHOOSE f \in S : \A g \in S : FracLE(f, g)

\* a rate over no rows: sklearn's normalised confusion matrix gives 0
RateOf(n, d) == IF d = 0 THEN <<0, 1>> ELSE Frac(n, d)

\* selection_rate over the rows I: the share of predictions equal to 1
selection_rate(y_pred, I) ==
    RateOf(Cardinality({i \in I : y_pred[i] = 1}), Cardinality(I))

\* false_negative_rate over the rows I: FN / (FN + TP)
fnr_rows(y_true, y_pred, I) ==
    RateOf(Cardinality({i \in I : y_true[i] = 1 /\ y_pred[i] # 1}),
           Cardinality({i \in I : y_true[i] = 1}))

\* false_positive_rate over the rows I: FP / (FP + TN)
fpr_rows(y_true, y_pred, I) ==
    RateOf(Cardinality({i \in I : y_true[i] # 1 /\ y_pred[i] = 1}),
           Cardinality({i \in I : y_true[i] # 1}))

\* true_positive_rate over the rows I: TP / (TP + FN)
tpr_rows(y_true, y_pred, I) ==
    RateOf(Cardinality({i \in I : y_true[i] = 1 /\ y_pred[i] = 1}),
           Cardinality({i \in I : y_true[i] = 1}))

false_negative_rate(y_true, y_pred) == fnr_rows(y_true, y_pred, DOMAIN y_true)
false_positive_rate(y_true, y_pred) == fpr_rows(y_true, y_pred, DOMAIN y_true)

\* the largest minus the smallest of a metric over the groups present
GroupDifference(rates) ==
    IF rates = {} THEN <<0, 0>> ELSE FracSub(FracMax(rates), FracMin(rates))

demographic_parity_difference(y_true, y_pred, sensitive_features) ==
    GroupDifference({selection_rate(y_pred, GroupRows(sensitive_features, g)) :
                        g \in Range(sensitive_features)})

equalized_odds_difference(y_true, y_pred, sensitive_features) ==
    LET tprd == GroupDifference(
                    {tpr_rows(y_true, y_pred, GroupRows(sensitive_features, g)) :
                        g \in Range(sensitive_features)})
        fprd == GroupDifference(
                    {fpr_rows(y_true, y_pred, GroupRows(sensitive_features, g)) :
                        g \in Range(sensitive_features)})
    IN IF FracLE(tprd, fprd) THEN fprd ELSE tprd

\* helpers.metrics.accuracy: not among the repository's files here
accuracy(a, b) == Term("accuracy", <<a, b>>)

(***************************************************************************)
(* The kernel.                                                             *)
(***************************************************************************)
\* what an import statement binds
Imported(names) == [n \in names |-> "imported"]

\* what a cell does: the names it binds, what it prints, the calls it makes
Effect(binds, prints, made) == [binds |-> binds, prints |-> prints, calls |-> made]
\* the same for a cell that also creates or changes dataset objects
EffectH(binds, prints, made, h) ==
    [binds |-> binds, prints |-> prints, calls |-> made, heap |-> h]

Printed(text, value) == [text |-> text, value |-> value]

\* pd.read_csv(path), joblib.load(path), np.load(path)
ReadFile(path) == disk[path]

\* the kernel runs code cell `cell` of `notebook` with effect `eff`
RunCell(notebook, cell, eff, next) ==
    /\ nb = notebook
    /\ pc = cell
    /\ ns' = Bind(eff.binds, ns)
    /\ out' = out \o eff.prints
    /\ calls' = calls \o eff.calls
    /\ heap' = IF "heap" \in DOMAIN eff THEN eff.heap ELSE heap
    /\ pc' = next
    /\ UNCHANGED <<nb, disk>>

\* model.predict_proba(X)[:, 1] as a call record; the scores are the loaded
\* model's, one per row of X
PredictProba(model, X) == [fn |-> "predict_proba", model |-> model, cols |-> X.cols]

\* a fairlearn metric as a call record
MetricCall(fn, y_true, y_pred, sf) ==
    [fn |-> fn, y_true |-> y_true, y_pred |-> y_pred, sensitive_features |-> sf]

\* the scores a loaded model can give the rows of a frame, in tenths
ScoreVals == {5, 8}
Scores(df) == [1..NRows(df) -> ScoreVals]

(***************************************************************************)
(* The artifacts directory.                                                *)
(***************************************************************************)
ArtifactsDir3 == <<"../../../artifacts">>
AdultProcessed(dir) == Div(Div(Div(dir, "data"), "adult"), "processed")
FinanceModels(dir) == Div(Div(dir, "models"), "finance")

\* a pickled model
Pickle(name) == [pickle |-> name]

\* the columns of the one-hot Adult files that the notebooks name; "age"
\* stands for the other feature columns
AdultCols == <<"age", "sex", "salary">>
AdultRow(sex, salary) == [c \in Range(AdultCols) |->
                            IF c = "sex" THEN sex ELSE IF c = "salary" THEN salary ELSE 0]
AdultRows == {AdultRow(a, y) : a \in {0, 1}, y \in {0, 1}}
AdultFrames(n) == {[cols |-> AdultCols, rows |-> r] : r \in [1..n -> AdultRows]}
\* the train and validation files: one row each
AdultTrainFrame == [cols |-> AdultCols, rows |-> <<AdultRow(1, 1)>>]
AdultValFrame == [cols |-> AdultCols, rows |-> <<AdultRow(0, 0)>>]

AdultDisk(dir, test) ==
    (Div(AdultProcessed(dir), "train-one-hot.csv") :> AdultTrainFrame)
    @@ (Div(AdultProcessed(dir), "val-one-hot.csv") :> AdultValFrame)
    @@ (Div(AdultProcessed(dir), "test-one-hot.csv") :> test)
    @@ (Div(FinanceModels(dir), "baseline.pkl") :> Pickle("baseline"))
    @@ (Div(FinanceModels(dir), "ftu.pkl") :> Pickle("ftu"))

(***************************************************************************)
(* notebooks/finance/interventions/ftu.ipynb: Fairness Through Unawareness *)
(***************************************************************************)
FtuImports ==
    RunCell("ftu", "imports",
            Effect(Imported({"Path", "joblib", "np", "pd",
                             "demographic_parity_difference",
                             "equalized_odds_difference", "MLPClassifier",
                             "accuracy", "group_bar_plots", "group_box_plots",
                             "calibration_curves"}), <<>>, <<>>),
            "artifacts_dir")

FtuArtifactsDir ==
    RunCell("ftu", "artifacts_dir",
            Effect("artifacts_dir" :> Path("../../../artifacts"), <<>>, <<>>),
            "load_data")

FtuLoadDataCell(env) ==
    LET data_dir == Div(Div(env["artifacts_dir"], "data"), "adult")
    IN Effect(("data_dir" :> data_dir)
              @@ ("train" :> ReadFile(Div(Div(data_dir, "processed"), "train-one-hot.csv")))
              @@ ("val" :> ReadFile(Div(Div(data_dir, "processed"), "val-one-hot.csv")))
              @@ ("test" :> ReadFile(Div(Div(data_dir, "processed"), "test-one-hot.csv"))),
              <<>>, <<>>)

FtuLoadData == RunCell("ftu", "load_data", FtuLoadDataCell(ns), "load_model")

FtuLoadModelCell(env) ==
    Effect("baseline_model" :>
               ReadFile(Div(Div(Div(env["artifacts_dir"], "models"), "finance"),
                            "baseline.pkl")),
           <<>>, <<>>)

FtuLoadModel == RunCell("ftu", "load_model", FtuLoadModelCell(ns), "bl_predict")

\* bl_test_probs = baseline_model.predict_proba(test.drop("salary", axis=1))[:, 1]
FtuBaselinePredictCell(env, probs) ==
    Effect(("bl_test_probs" :> probs)
           @@ ("bl_test_labels" :> AsFloat(VecGt(probs, 5))),
           <<>>,
           <<PredictProba(env["baseline_model"], DfDrop(env["test"], "salary"))>>)

FtuBaselinePredict ==
    /\ nb = "ftu" /\ pc = "bl_predict"
    /\ \E probs \in Scores(ns["test"]) :
        RunCell("ftu", "bl_predict", FtuBaselinePredictCell(ns, probs), "ftu_data")

\* train_ftu = train.drop("sex", axis=1).copy(), and val_ftu, test_ftu
FtuDataSetsCell(env) ==
    Effect(("train_ftu" :> DfCopy(DfDrop(env["train"], "sex")))
           @@ ("val_ftu" :> DfCopy(DfDrop(env["val"], "sex")))
           @@ ("test_ftu" :> DfCopy(DfDrop(env["test"], "sex"))),
           <<>>, <<>>)

FtuDataSets == RunCell("ftu", "ftu_data", FtuDataSetsCell(ns), "load_ftu_model")

FtuLoadFtuModelCell(env) ==
    Effect("ftu_model" :>
               ReadFile(Div(Div(Div(env["artifacts_dir"], "models"), "finance"),
                            "ftu.pkl")),
           <<>>, <<>>)

FtuLoadFtuModel ==
    RunCell("ftu", "load_ftu_model", FtuLoadFtuModelCell(ns), "ftu_predict")

\* the prediction cell giving the model the test frame that still has sex
FtuPredictCell_WithSex(env, probs) ==
    Effect(("test_probs" :> probs)
           @@ ("test_pred_labels" :> AsFloat(VecGt(probs, 5))),
           <<>>,
           <<PredictProba(env["ftu_model"], DfDrop(env["test"], "salary"))>>)

\* test_probs = ftu_model.predict_proba(test_ftu.drop("salary", axis=1))[:, 1]
FtuPredictCell(env, probs) ==
    Effect(("test_probs" :> probs)
           @@ ("test_pred_labels" :> AsFloat(VecGt(probs, 5))),
           <<>>,
           <<PredictProba(env["ftu_model"], DfDrop(env["test_ftu"], "salary"))>>)

FtuPredict ==
    /\ nb = "ftu" /\ pc = "ftu_predict"
    /\ \E probs \in Scores(ns["test_ftu"]) :
        RunCell("ftu", "ftu_predict", FtuPredictCell(ns, probs), "dp")

\* the demographic parity cell with y_true and y_pred exchanged in the calls
FtuDemographicParityCell_ArgsExchanged(env) ==
    LET test_sex == Column(env["test"], "sex")
        test_salary == Column(env["test"], "salary")
        mask == VecEq(test_sex, 1)
        bl_test_acc == accuracy(test_salary, env["bl_test_labels"])
        bl_test_dpd == demographic_parity_difference(
                           env["bl_test_labels"], test_salary, test_sex)
        test_acc == accuracy(test_salary, env["test_pred_labels"])
        test_dpd == demographic_parity_difference(
                        env["test_pred_labels"], test_salary, test_sex)
    IN Effect(("test_sex" :> test_sex) @@ ("test_salary" :> test_salary)
              @@ ("mask" :> mask)
              @@ ("bl_test_acc" :> bl_test_acc) @@ ("bl_test_dpd" :> bl_test_dpd)
              @@ ("test_acc" :> test_acc) @@ ("test_dpd" :> test_dpd),
              <<Printed("Baseline accuracy: ", Term(".3f", bl_test_acc)),
                Printed("Accuracy: ", Term(".3f", test_acc)),
                Printed("Baseline demographic parity: ", FmtFixed(bl_test_dpd, 3)),
                Printed("Demographic parity: ", FmtFixed(test_dpd, 3))>>,
              <<MetricCall("demographic_parity_difference",
                           env["bl_test_labels"], test_salary, test_sex),
                MetricCall("demographic_parity_difference",
                           env["test_pred_labels"], test_salary, test_sex)>>)

\* the demographic parity cell
FtuDemographicParityCell(env) ==
    LET test_sex == Column(env["test"], "sex")
        test_salary == Column(env["test"], "salary")
        mask == VecEq(test_sex, 1)
        bl_test_acc == accuracy(test_salary, env["bl_test_labels"])
        bl_test_dpd == demographic_parity_difference(
                           test_salary, env["bl_test_labels"], test_sex)
        test_acc == accuracy(test_salary, env["test_pred_labels"])
        test_dpd == demographic_parity_difference(
                        test_salary, env["test_pred_labels"], test_sex)
    IN Effect(("test_sex" :> test_sex) @@ ("test_salary" :> test_salary)
              @@ ("mask" :> mask)
              @@ ("bl_test_acc" :> bl_test_acc) @@ ("bl_test_dpd" :> bl_test_dpd)
              @@ ("test_acc" :> test_acc) @@ ("test_dpd" :> test_dpd),
              <<Printed("Baseline accuracy: ", Term(".3f", bl_test_acc)),
                Printed("Accuracy: ", Term(".3f", test_acc)),
                Printed("Baseline demographic parity: ", FmtFixed(bl_test_dpd, 3)),
                Printed("Demographic parity: ", FmtFixed(test_dpd, 3))>>,
              <<MetricCall("demographic_parity_difference",
                           test_salary, env["bl_test_labels"], test_sex),
                MetricCall("demographic_parity_difference",
                           test_salary, env["test_pred_labels"], test_sex)>>)

FtuDemographicParity == RunCell("ftu", "dp", FtuDemographicParityCell(ns), "dp_box")

\* series.map({0: a, 1: b})
MapValues(x, zero, one) == [i \in DOMAIN x |-> IF x[i] = 0 THEN zero ELSE one]
\* np.zeros_like(x), np.ones_like(x), np.tile(x, 2)
ZerosLike(x) == [i \in DOMAIN x |-> 0]
OnesLike(x) == [i \in DOMAIN x |-> 1]
Tile2(x) == x \o x

\* helpers.plot: the figure is kept as the call that draws it
Plot(fn, args) == Term(fn, args)
ChartCall(fn) == [fn |-> fn]

FtuDpBoxCell(env) ==
    LET dp_box == Plot("group_box_plots",
                       [values |-> env["bl_test_probs"] \o env["test_probs"],
                        attribute |-> Tile2(MapValues(Column(env["test"], "sex"),
                                                      "Female", "Male")),
                        groups |-> ZerosLike(env["bl_test_probs"])
                                       \o OnesLike(env["test_probs"]),
                        group_names |-> <<"Baseline", "FTU">>])
    IN Effect("dp_box" :> dp_box, <<>>, <<ChartCall("group_box_plots")>>)

FtuDpBox == RunCell("ftu", "dp_box", FtuDpBoxCell(ns), "eo")

\* the equalised odds cell
FtuEqualisedOddsCell(env) ==
    LET test_sex == Column(env["test"], "sex")
        test_salary == Column(env["test"], "salary")
        mask == VecEq(test_sex, 1)
        bl_test_acc == accuracy(test_salary, env["bl_test_labels"])
        bl_test_eod == equalized_odds_difference(
                           test_salary, env["bl_test_labels"], test_sex)
        test_acc == accuracy(env["test_pred_labels"], test_salary)
        test_eod == equalized_odds_difference(
                        test_salary, env["test_pred_labels"], test_sex)
    IN Effect(("test_sex" :> test_sex) @@ ("test_salary" :> test_salary)
              @@ ("mask" :> mask)
              @@ ("bl_test_acc" :> bl_test_acc) @@ ("bl_test_eod" :> bl_test_eod)
              @@ ("test_acc" :> test_acc) @@ ("test_eod" :> test_eod),
              <<Printed("Baseline accuracy: ", Term(".3f", bl_test_acc)),
                Printed("Accuracy: ", Term(".3f", test_acc)),
                Printed("Baseline equalised odds difference: ",
                        FmtFixed(bl_test_eod, 3)),
                Printed("Equalised odds difference: ", FmtFixed(test_eod, 3))>>,
              <<MetricCall("equalized_odds_difference",
                           test_salary, env["bl_test_labels"], test_sex),
                MetricCall("equalized_odds_difference",
                           test_salary, env["test_pred_labels"], test_sex)>>)

FtuEqualisedOdds == RunCell("ftu", "eo", FtuEqualisedOddsCell(ns), "bl_eo_bar")

FtuBlEoBarCell(env) ==
    Effect("bl_eo_bar" :>
               Plot("group_bar_plots",
                    [values |-> env["bl_test_probs"],
                     attribute |-> MapValues(Column(env["test"], "sex"),
                                             "Female", "Male"),
                     groups |-> Column(env["test"], "salary"),
                     group_names |-> <<"Low earners", "High earners">>]),
           <<>>, <<ChartCall("group_bar_plots")>>)

FtuBlEoBar == RunCell("ftu", "bl_eo_bar", FtuBlEoBarCell(ns), "eo_bar")

FtuEoBarCell(env) ==
    Effect("eo_bar" :>
               Plot("group_bar_plots",
                    [values |-> env["test_probs"],
                     attribute |-> MapValues(Column(env["test"], "sex"),
                                             "Female", "Male"),
                     groups |-> Column(env["test"], "salary"),
                     group_names |-> <<"Low earners", "High earners">>]),
           <<>>, <<ChartCall("group_bar_plots")>>)

FtuEoBar == RunCell("ftu", "eo_bar", FtuEoBarCell(ns), "eopp")

\* the equal opportunity cell
FtuEqualOpportunityCell(env) ==
    LET test_sex == Column(env["test"], "sex")
        test_salary == Column(env["test"], "salary")
        mask == VecEq(test_sex, 1)
        high == VecEq(Column(env["test"], "salary"), 1)
        bl_test_acc == accuracy(test_salary, env["bl_test_probs"])
        bl_test_eoppd == equalized_odds_difference(
                             Masked(test_salary, high),
                             Masked(env["bl_test_labels"], high),
                             Masked(test_sex, high))
        test_acc == accuracy(test_salary, env["test_pred_labels"])
        test_eoppd == equalized_odds_difference(
                          Masked(test_salary, high),
                          Masked(env["test_pred_labels"], high),
                          Masked(test_sex, high))
    IN Effect(("test_sex" :> test_sex) @@ ("test_salary" :> test_salary)
              @@ ("mask" :> mask)
              @@ ("bl_test_acc" :> bl_test_acc) @@ ("bl_test_eoppd" :> bl_test_eoppd)
              @@ ("test_acc" :> test_acc) @@ ("test_eoppd" :> test_eoppd),
              <<Printed("Baseline accuracy: ", Term(".3f", bl_test_acc)),
                Printed("Accuracy: ", Term(".3f", test_acc)),
                Printed("Baseline equal opportunity: ", FmtFixed(bl_test_eoppd, 3)),
                Printed("Equal opportunity: ", FmtFixed(test_eoppd, 3))>>,
              <<MetricCall("equalized_odds_difference",
                           Masked(test_salary, high),
                           Masked(env["bl_test_labels"], high),
                           Masked(test_sex, high)),
                MetricCall("equalized_odds_difference",
                           Masked(test_salary, high),
                           Masked(env["test_pred_labels"], high),
                           Masked(test_sex, high))>>)

FtuEqualOpportunity == RunCell("ftu", "eopp", FtuEqualOpportunityCell(ns), "eopp_bar")

FtuEoppBarCell(env) ==
    LET mask == VecEq(Column(env["test"], "salary"), 1)
        eopp_bar ==
            Plot("group_bar_plots",
                 [values |-> Masked(env["bl_test_labels"], mask)
                                 \o Masked(env["test_pred_labels"], mask),
                  attribute |-> Tile2(MapValues(Masked(Column(env["test"], "sex"), mask),
                                                "Female", "Male")),
                  groups |-> ZerosLike(Masked(env["bl_test_probs"], mask))
                                 \o OnesLike(Masked(env["test_probs"], mask)),
                  group_names |-> <<"Baseline", "FTU">>])
    IN Effect(("mask" :> mask) @@ ("eopp_bar" :> eopp_bar),
              <<>>, <<ChartCall("group_bar_plots")>>)

FtuEoppBar == RunCell("ftu", "eopp_bar", FtuEoppBarCell(ns), "bl_cal")

FtuBlCalCell(env) ==
    Effect("bl_cal_line" :>
               Plot("calibration_curves",
                    [labels |-> Column(env["test"], "salary"),
                     scores |-> env["bl_test_probs"],
                     attribute |-> MapValues(Column(env["test"], "sex"),
                                             "Female", "Male")]),
           <<>>, <<ChartCall("calibration_curves")>>)

FtuBlCal == RunCell("ftu", "bl_cal", FtuBlCalCell(ns), "ftu_cal")

FtuCalCell(env) ==
    Effect("ftu_cal_line" :>
               Plot("calibration_curves",
                    [labels |-> Column(env["test"], "salary"),
                     scores |-> env["test_probs"],
                     attribute |-> MapValues(Column(env["test"], "sex"),
                                             "Female", "Male")]),
           <<>>, <<ChartCall("calibration_curves")>>)

FtuCal == RunCell("ftu", "ftu_cal", FtuCalCell(ns), "done")

NextFtu ==
    \/ FtuImports \/ FtuArtifactsDir \/ FtuLoadData \/ FtuLoadModel
    \/ FtuBaselinePredict \/ FtuDataSets \/ FtuLoadFtuModel \/ FtuPredict
    \/ FtuDemographicParity \/ FtuDpBox \/ FtuEqualisedOdds \/ FtuBlEoBar
    \/ FtuEoBar \/ FtuEqualOpportunity \/ FtuEoppBar \/ FtuBlCal \/ FtuCal

\* the kernel in front of the FTU notebook, the artifacts on disk
InitFtu ==
    /\ nb = "ftu"
    /\ pc = "imports"
    /\ \E n \in 1..MaxRows : \E test \in AdultFrames(n) :
           disk = AdultDisk(ArtifactsDir3, test)

(***************************************************************************)
(* notebooks/recruiting/interventions/kamishima.ipynb: the metrics cell    *)
(***************************************************************************)
\* the columns of the recruiting files that the notebooks name;
\* "years_experience" stands for the other feature columns
RecruitingCols == <<"sex_male", "race_white", "years_experience", "employed_yes">>
RecruitingRow(race, employed) ==
    [c \in Range(RecruitingCols) |->
        IF c = "race_white" THEN race ELSE IF c = "employed_yes" THEN employed ELSE 0]
RecruitingRows == {RecruitingRow(a, y) : a \in {0, 1}, y \in {0, 1}}
RecruitingFrames(n) ==
    {[cols |-> RecruitingCols, rows |-> r] : r \in [1..n -> RecruitingRows]}

\* df.drop(columns=[...])
RECURSIVE DfDropAll(_, _)
DfDropAll(df, cols) ==
    IF cols = <<>> THEN df ELSE DfDropAll(DfDrop(df, Head(cols)), Tail(cols))

KamishimaMetricsCell(env) ==
    LET test_features == DfDropAll(env["test"], <<"race_white", "employed_yes">>).rows
        test_race_white == Column(env["test"], "race_white")
        test_employed_yes == Column(env["test"], "employed_yes")
        mask == VecEq(test_race_white, 1)
        bl_test_acc == accuracy(test_employed_yes, env["bl_test_probs"])
        bl_test_dpd == demographic_parity_difference(
                           Column(env["test"], "employed_yes"),
                           AsNum(env["bl_test_pred"]), test_race_white)
        test_acc == accuracy(test_employed_yes, env["test_pred"])
        test_dpd == demographic_parity_difference(
                        Column(env["test"], "employed_yes"),
                        AsNum(env["test_pred"]), test_race_white)
    IN Effect(("test_features" :> test_features)
              @@ ("test_race_white" :> test_race_white)
              @@ ("test_employed_yes" :> test_employed_yes)
              @@ ("mask" :> mask)
              @@ ("bl_test_acc" :> bl_test_acc) @@ ("bl_test_dpd" :> bl_test_dpd)
              @@ ("test_acc" :> test_acc) @@ ("test_dpd" :> test_dpd),
              <<Printed("Baseline accuracy: ", Term(".3f", bl_test_acc)),
                Printed("Accuracy: ", Term(".3f", test_acc)),
                Printed("Baseline demographic parity: ", FmtFixed(bl_test_dpd, 3)),
                Printed("Demographic parity: ", FmtFixed(test_dpd, 3))>>,
              <<MetricCall("demographic_parity_difference",
                           Column(env["test"], "employed_yes"),
                           AsNum(env["bl_test_pred"]), test_race_white),
                MetricCall("demographic_parity_difference",
                           Column(env["test"], "employed_yes"),
                           AsNum(env["test_pred"]), test_race_white)>>)

KamishimaMetrics ==
    RunCell("kamishima", "metrics", KamishimaMetricsCell(ns), "dp_box")

(***************************************************************************)
(* aif360 datasets: objects on the heap, named by reference.               *)
(***************************************************************************)
\* ndarray.reshape(-1, 1) and ndarray.flatten()
Reshape(v) == [i \in DOMAIN v |-> <<v[i]>>]
Flatten(m) == [i \in DOMAIN m |-> m[i][1]]
\* ~mask
VecNot(mask) == [i \in DOMAIN mask |-> ~mask[i]]

\* StandardDataset(df, label_name=..., favorable_classes=[1],
\*                 protected_attribute_names=[...], privileged_classes=[[1]])
StandardDataset(df, label_name, protected) ==
    [feature_names |-> DfDrop(df, label_name).cols,
     features |-> DfDrop(df, label_name).rows,
     label_names |-> <<label_name>>,
     labels |-> Reshape(Column(df, label_name)),
     scores |-> Reshape(Column(df, label_name)),
     protected_attribute_names |-> <<protected>>,
     protected_attributes |-> Reshape(Column(df, protected))]

\* a new object on the heap, and its reference
Alloc(h, obj) == Append(h, obj)
NewRef(h) == Len(h) + 1

\* dataset.copy(deepcopy=True): a new object with equal fields
DeepCopy(h, ref) == Alloc(h, h[ref])

\* feature_names.index(name)
RECURSIVE IndexOf(_, _)
IndexOf(seq, x) == IF Head(seq) = x THEN 0 ELSE 1 + IndexOf(Tail(seq), x)

\* intervention.fit(dataset_true, dataset_pred) as a call record: the two
\* objects passed and what they hold at the call
FitCall(fn, h, true_ref, pred_ref) ==
    [fn |-> fn, dataset_true |-> true_ref, dataset_pred |-> pred_ref,
     true_labels |-> h[true_ref].labels,
     pred_labels |-> h[pred_ref].labels, pred_scores |-> h[pred_ref].scores]

\* intervention.predict(dataset) as a call record
PredictCall(fn, h, ref) ==
    [fn |-> fn, dataset |-> ref, labels |-> h[ref].labels, scores |-> h[ref].scores]

\* the labels a classifier or a randomised intervention can give n rows
Labels(n) == [1..n -> {0, 1}]

(***************************************************************************)
(* The recruiting files.                                                   *)
(***************************************************************************)
RecruitingProcessed(dir) == Div(Div(Div(dir, "data"), "recruiting"), "processed")
RecruitingModels(dir) == Div(Div(dir, "models"), "recruiting")
\* the train and validation files: one row each
RecruitingTrainFrame == [cols |-> RecruitingCols, rows |-> <<RecruitingRow(1, 1)>>]
RecruitingValFrame == [cols |-> RecruitingCols, rows |-> <<RecruitingRow(0, 1)>>]

RecruitingDisk(dir, test) ==
    (Div(RecruitingProcessed(dir), "train.csv") :> RecruitingTrainFrame)
    @@ (Div(RecruitingProcessed(dir), "val.csv") :> RecruitingValFrame)
    @@ (Div(RecruitingProcessed(dir), "test.csv") :> test)
    @@ (Div(RecruitingModels(dir), "baseline.pkl") :> Pickle("baseline"))

\* data_dir = ...; train, val, test = pd.read_csv(...)
RecruitingLoadDataCell(env) ==
    LET data_dir == Div(Div(env["artifacts_dir"], "data"), "recruiting")
    IN Effect(("data_dir" :> data_dir)
              @@ ("train" :> ReadFile(Div(Div(data_dir, "processed"), "train.csv")))
              @@ ("val" :> ReadFile(Div(Div(data_dir, "processed"), "val.csv")))
              @@ ("test" :> ReadFile(Div(Div(data_dir, "processed"), "test.csv"))),
              <<>>, <<>>)

\* train_sds, test_sds, val_sds = StandardDataset(...), in this order; index
RecruitingDatasetsCell(env, h) ==
    LET h1 == Alloc(h, StandardDataset(env["train"], "employed_yes", "race_white"))
        h2 == Alloc(h1, StandardDataset(env["test"], "employed_yes", "race_white"))
        h3 == Alloc(h2, StandardDataset(env["val"], "employed_yes", "race_white"))
    IN EffectH(("train_sds" :> NewRef(h)) @@ ("test_sds" :> NewRef(h1))
               @@ ("val_sds" :> NewRef(h2))
               @@ ("index" :> IndexOf(h1[NewRef(h)].feature_names, "race_white")),
               <<>>, <<>>, h3)

RecruitingGroupsCell ==
    Effect(("privileged_groups" :> <<[race_white |-> 1]>>)
           @@ ("unprivileged_groups" :> <<[race_white |-> 0]>>), <<>>, <<>>)

RecruitingLoadModelCell(env, name) ==
    Effect(name :> ReadFile(Div(Div(Div(env["artifacts_dir"], "models"), "recruiting"),
                                "baseline.pkl")),
           <<>>, <<>>)

Predict(model, X) == [fn |-> "predict", model |-> model, cols |-> X.cols]

(***************************************************************************)
(* The recruiting notebook of Hardt et al.'s decision threshold            *)
(* modification.                                                           *)
(***************************************************************************)
HardtImports ==
    RunCell("hardt", "imports",
            Effect(Imported({"Path", "joblib", "np", "pd", "EqOddsPostprocessing",
                             "StandardDataset", "equalized_odds_difference",
                             "false_negative_rate", "false_positive_rate",
                             "accuracy", "group_bar_plots"}), <<>>, <<>>),
            "artifacts_dir")

HardtArtifactsDir ==
    RunCell("hardt", "artifacts_dir",
            Effect("artifacts_dir" :> Path("../../../artifacts"), <<>>, <<>>),
            "load_data")

HardtLoadData == RunCell("hardt", "load_data", RecruitingLoadDataCell(ns), "datasets")

HardtDatasets ==
    RunCell("hardt", "datasets", RecruitingDatasetsCell(ns, heap), "groups")

HardtGroups == RunCell("hardt", "groups", RecruitingGroupsCell, "load_model")

HardtLoadModel ==
    RunCell("hardt", "load_model", RecruitingLoadModelCell(ns, "bl_model"), "predict")

\* the prediction cell with val_sds_pred and test_sds_pred bound to the
\* loaded datasets themselves, not to copies
HardtPredictCell_NoCopy(env, h, val_pred, test_pred) ==
    LET h1 == [h EXCEPT ![env["val_sds"]].labels = Reshape(val_pred)]
        h2 == [h1 EXCEPT ![env["test_sds"]].labels = Reshape(test_pred)]
    IN EffectH(("bl_val_pred" :> val_pred) @@ ("val_sds_pred" :> env["val_sds"])
               @@ ("bl_test_pred" :> test_pred) @@ ("test_sds_pred" :> env["test_sds"]),
               <<>>,
               <<Predict(env["bl_model"], DfDrop(env["val"], "employed_yes")),
                 Predict(env["bl_model"], DfDrop(env["test"], "employed_yes"))>>,
               h2)

\* bl_val_pred = bl_model.predict(val.drop("employed_yes", axis=1))
\* val_sds_pred = val_sds.copy(deepcopy=True)
\* val_sds_pred.labels = bl_val_pred.reshape(-1, 1), and the same for test
HardtPredictCell(env, h, val_pred, test_pred) ==
    LET h1 == DeepCopy(h, env["val_sds"])
        val_sds_pred == NewRef(h)
        h2 == [h1 EXCEPT ![val_sds_pred].labels = Reshape(val_pred)]
        h3 == DeepCopy(h2, env["test_sds"])
        test_sds_pred == NewRef(h2)
        h4 == [h3 EXCEPT ![test_sds_pred].labels = Reshape(test_pred)]
    IN EffectH(("bl_val_pred" :> val_pred) @@ ("val_sds_pred" :> val_sds_pred)
               @@ ("bl_test_pred" :> test_pred) @@ ("test_sds_pred" :> test_sds_pred),
               <<>>,
               <<Predict(env["bl_model"], DfDrop(env["val"], "employed_yes")),
                 Predict(env["bl_model"], DfDrop(env["test"], "employed_yes"))>>,
               h4)

HardtPredict ==
    /\ nb = "hardt" /\ pc = "predict"
    /\ \E val_pred \in Labels(NRows(ns["val"])), test_pred \in Labels(NRows(ns["test"])) :
           RunCell("hardt", "predict", HardtPredictCell(ns, heap, val_pred, test_pred),
                   "fit")

\* eopp = EqOddsPostprocessing(...); eopp = eopp.fit(val_sds, val_sds_pred)
HardtFitCell(env, h) ==
    Effect("eopp" :> [class |-> "EqOddsPostprocessing",
                      privileged_groups |-> env["privileged_groups"],
                      unprivileged_groups |-> env["unprivileged_groups"],
                      fitted_on |-> <<env["val_sds"], env["val_sds_pred"]>>],
           <<>>,
           <<FitCall("EqOddsPostprocessing.fit", h, env["val_sds"], env["val_sds_pred"])>>)

HardtFit == RunCell("hardt", "fit", HardtFitCell(ns, heap), "apply")

\* test_sds_pred_tranf = eopp.predict(test_sds_pred): a new dataset whose
\* labels the fitted intervention has drawn
\* test_scores = test_sds_pred_tranf.labels
HardtApplyCell(env, h, new_labels) ==
    LET h1 == DeepCopy(h, env["test_sds_pred"])
        tranf == NewRef(h)
        h2 == [h1 EXCEPT ![tranf].labels = Reshape(new_labels)]
    IN EffectH(("test_sds_pred_tranf" :> tranf) @@ ("test_scores" :> h2[tranf].labels),
               <<>>,
               <<PredictCall("EqOddsPostprocessing.predict", h, env["test_sds_pred"])>>,
               h2)

HardtApply ==
    /\ nb = "hardt" /\ pc = "apply"
    /\ \E new_labels \in Labels(NRows(ns["test"])) :
           RunCell("hardt", "apply", HardtApplyCell(ns, heap, new_labels), "rates")

\* the per-group false negative and false positive rates
HardtRatesCell(env) ==
    LET mask == VecEq(Column(env["test"], "race_white"), 1)
        employed == Column(env["test"], "employed_yes")
        white_fnr == false_negative_rate(Masked(employed, mask),
                                         Flatten(Masked(env["test_scores"], mask)))
        black_fnr == false_negative_rate(Masked(employed, VecNot(mask)),
                                         Flatten(Masked(env["test_scores"], VecNot(mask))))
        fnr_diff == FracAbs(FracSub(white_fnr, black_fnr))
        white_fpr == false_positive_rate(Masked(employed, mask),
                                         Flatten(Masked(env["test_scores"], mask)))
        black_fpr == false_positive_rate(Masked(employed, VecNot(mask)),
                                         Flatten(Masked(env["test_scores"], VecNot(mask))))
        fpr_diff == FracAbs(FracSub(white_fpr, black_fpr))
    IN Effect(("mask" :> mask)
              @@ ("white_fnr" :> white_fnr) @@ ("black_fnr" :> black_fnr)
              @@ ("fnr_diff" :> fnr_diff)
              @@ ("white_fpr" :> white_fpr) @@ ("black_fpr" :> black_fpr)
              @@ ("fpr_diff" :> fpr_diff),
              <<Printed("Difference in false positive rates: ", FmtFixed(fpr_diff, 4)),
                Printed("Difference in false negative rates: ", FmtFixed(fnr_diff, 4))>>,
              <<>>)

HardtRates == RunCell("hardt", "rates", HardtRatesCell(ns), "print")

\* the accuracies, and the print of the per-group rates
HardtPrintCell(env) ==
    LET white == VecEq(Column(env["test"], "race_white"), 1)
        black == VecEq(Column(env["test"], "race_white"), 0)
        employed == Column(env["test"], "employed_yes")
        acc == accuracy(Flatten(env["test_scores"]), employed)
        black_acc == accuracy(Masked(Flatten(env["test_scores"]), black),
                              Masked(employed, black))
        white_acc == accuracy(Masked(Flatten(env["test_scores"]), white),
                              Masked(employed, white))
    IN Effect(("acc" :> acc) @@ ("black_acc" :> black_acc) @@ ("white_acc" :> white_acc),
              <<Printed("Accuracy: ", Term(".3f", acc)),
                Printed("Black accuracy: ", Term(".3f", black_acc)),
                Printed("White accuracy: ", Term(".3f", white_acc)),
                Printed("Black false negative rate ", FmtFixed(env["white_fnr"], 4)),
                Printed("White false negative rate ", FmtFixed(env["black_fnr"], 4)),
                Printed("Black false positive rate ", FmtFixed(env["white_fpr"], 4)),
                Printed("White false positive rate ", FmtFixed(env["black_fpr"], 4))>>,
              <<>>)

HardtPrint == RunCell("hardt", "print", HardtPrintCell(ns), "eod")

\* the equalised odds difference taken over the employed applicants only
HardtEodCell_EmployedOnly(env) ==
    LET employed == VecEq(Column(env["test"], "employed_yes"), 1)
        eod == equalized_odds_difference(
                   Masked(Column(env["test"], "employed_yes"), employed),
                   Masked(Flatten(env["test_scores"]), employed),
                   Masked(Column(env["test"], "race_white"), employed))
    IN Effect("eod" :> eod,
              <<Printed("Equalised odds: ", FmtFixed(eod, 4))>>,
              <<MetricCall("equalized_odds_difference",
                           Masked(Column(env["test"], "employed_yes"), employed),
                           Masked(Flatten(env["test_scores"]), employed),
                           Masked(Column(env["test"], "race_white"), employed))>>)

HardtEodCell(env) ==
    LET eod == equalized_odds_difference(Column(env["test"], "employed_yes"),
                                         Flatten(env["test_scores"]),
                                         Column(env["test"], "race_white"))
    IN Effect("eod" :> eod,
              <<Printed("Equalised odds: ", FmtFixed(eod, 4))>>,
              <<MetricCall("equalized_odds_difference",
                           Column(env["test"], "employed_yes"),
                           Flatten(env["test_scores"]),
                           Column(env["test"], "race_white"))>>)

HardtEod == RunCell("hardt", "eod", HardtEodCell(ns), "eo_bar")

HardtEoBarCell(env) ==
    Effect("eo_bar" :>
               Plot("group_bar_plots",
                    [values |-> env["test_scores"],
                     attribute |-> MapValues(Column(env["test"], "race_white"),
                                             "Black", "White"),
                     groups |-> Column(env["test"], "employed_yes"),
                     group_names |-> <<"Not employed", "Employed">>]),
           <<>>, <<ChartCall("group_bar_plots")>>)

HardtEoBar == RunCell("hardt", "eo_bar", HardtEoBarCell(ns), "done")

NextHardt ==
    \/ HardtImports \/ HardtArtifactsDir \/ HardtLoadData \/ HardtDatasets
    \/ HardtGroups \/ HardtLoadModel \/ HardtPredict \/ HardtFit \/ HardtApply
    \/ HardtRates \/ HardtPrint \/ HardtEod \/ HardtEoBar

InitHardt ==
    /\ nb = "hardt"
    /\ pc = "imports"
    /\ \E n \in 1..MaxRows : \E test \in RecruitingFrames(n) :
           disk = RecruitingDisk(ArtifactsDir3, test)

(***************************************************************************)
(* The recruiting notebook of Pleiss et al.'s information withholding, as  *)
(* it is in the repository: the cells tagged "export" run too.             *)
(***************************************************************************)
ArtifactsDir4 == <<"../../../../artifacts">>
calibration_difference(y_true, probs, attr) ==
    Term("calibration_difference", <<y_true, probs, attr>>)
ExportCall(name) == [fn |-> "export_plot", file |-> name]

PleissImports ==
    RunCell("pleiss", "imports",
            Effect(Imported({"Path", "joblib", "np", "pd", "StandardDataset",
                             "CalibratedEqOddsPostprocessing",
                             "equalized_odds_difference", "accuracy",
                             "calibration_difference", "calibration_curves",
                             "group_bar_plots"}), <<>>, <<>>),
            "import_export")

PleissImportExport ==
    RunCell("pleiss", "import_export",
            Effect(Imported({"export_plot"}), <<>>, <<>>), "artifacts_dir")

PleissArtifactsDir ==
    RunCell("pleiss", "artifacts_dir",
            Effect("artifacts_dir" :> Path("../../../artifacts"), <<>>, <<>>),
            "artifacts_dir_override")

PleissArtifactsDirOverride ==
    RunCell("pleiss", "artifacts_dir_override",
            Effect("artifacts_dir" :> Path("../../../../artifacts"), <<>>, <<>>),
            "load_data")

PleissLoadData == RunCell("pleiss", "load_data", RecruitingLoadDataCell(ns), "datasets")

PleissDatasets ==
    RunCell("pleiss", "datasets", RecruitingDatasetsCell(ns, heap), "groups")

PleissGroups == RunCell("pleiss", "groups", RecruitingGroupsCell, "load_model")

PleissLoadModel ==
    RunCell("pleiss", "load_model", RecruitingLoadModelCell(ns, "bl_model"), "predict")

\* bl_test_probs = bl_model.predict_proba(test.drop("employed_yes", axis=1))[:, 1]
\* test_sds_pred = test_sds.copy(deepcopy=True)
\* test_sds_pred.scores = bl_test_probs.reshape(-1, 1)
\* bl_test_pred = bl_test_probs > 0.5, and the same for val
PleissPredictCell(env, h, test_probs, val_probs) ==
    LET h1 == DeepCopy(h, env["test_sds"])
        test_sds_pred == NewRef(h)
        h2 == [h1 EXCEPT ![test_sds_pred].scores = Reshape(test_probs)]
        h3 == DeepCopy(h2, env["val_sds"])
        val_sds_pred == NewRef(h2)
        h4 == [h3 EXCEPT ![val_sds_pred].scores = Reshape(val_probs)]
    IN EffectH(("bl_test_probs" :> test_probs) @@ ("test_sds_pred" :> test_sds_pred)
               @@ ("bl_test_pred" :> VecGt(test_probs, 5))
               @@ ("bl_val_probs" :> val_probs) @@ ("val_sds_pred" :> val_sds_pred)
               @@ ("bl_val_pred" :> VecGt(val_probs, 5)),
               <<>>,
               <<PredictProba(env["bl_model"], DfDrop(env["test"], "employed_yes")),
                 PredictProba(env["bl_model"], DfDrop(env["val"], "employed_yes"))>>,
               h4)

PleissPredict ==
    /\ nb = "pleiss" /\ pc = "predict"
    /\ \E test_probs \in Scores(ns["test"]), val_probs \in Scores(ns["val"]) :
           RunCell("pleiss", "predict",
                   PleissPredictCell(ns, heap, test_probs, val_probs), "eopp_constraint")

PleissEoppConstraint ==
    RunCell("pleiss", "eopp_constraint",
            Effect("cost_constraint" :> "fnr", <<>>, <<>>), "eopp_fit")

\* cpp = CalibratedEqOddsPostprocessing(...) fitted on two datasets
CalibratedEqOddsPostprocessing(env, true_ref, pred_ref) ==
    [class |-> "CalibratedEqOddsPostprocessing",
     privileged_groups |-> env["privileged_groups"],
     unprivileged_groups |-> env["unprivileged_groups"],
     cost_constraint |-> env["cost_constraint"],
     fitted_on |-> <<true_ref, pred_ref>>]

\* cpp = CalibratedEqOddsPostprocessing(...); cpp = cpp.fit(val_sds, val_sds_pred)
PleissEoppFitCell(env, h) ==
    Effect("cpp" :> CalibratedEqOddsPostprocessing(env, env["val_sds"],
                                                   env["val_sds_pred"]),
           <<>>,
           <<FitCall("CalibratedEqOddsPostprocessing.fit", h,
                     env["val_sds"], env["val_sds_pred"])>>)

PleissEoppFit == RunCell("pleiss", "eopp_fit", PleissEoppFitCell(ns, heap), "eopp_apply")

\* test_sds_pred_tranf = cpp.predict(test_sds_pred): a new dataset with the
\* scores the intervention has drawn, and the labels of those scores
\* test_probs = test_sds_pred_tranf.scores.flatten(); test_pred = test_probs > 0.5
PleissApplyCell(env, h, new_scores) ==
    LET h1 == DeepCopy(h, env["test_sds_pred"])
        tranf == NewRef(h)
        h2 == [h1 EXCEPT ![tranf].scores = Reshape(new_scores),
                         ![tranf].labels = Reshape(AsNum(VecGt(new_scores, 4)))]
    IN EffectH(("test_sds_pred_tranf" :> tranf)
               @@ ("test_probs" :> Flatten(h2[tranf].scores))
               @@ ("test_pred" :> VecGt(Flatten(h2[tranf].scores), 5)),
               <<>>,
               <<PredictCall("CalibratedEqOddsPostprocessing.predict", h,
                             env["test_sds_pred"])>>,
               h2)

PleissEoppApply ==
    /\ nb = "pleiss" /\ pc = "eopp_apply"
    /\ \E new_scores \in Scores(ns["test"]) :
           RunCell("pleiss", "eopp_apply", PleissApplyCell(ns, heap, new_scores),
                   "eopp_metrics")

\* accuracy, equal opportunity and calibration, before and after
PleissEoppMetricsCell(env) ==
    LET employed == Column(env["test"], "employed_yes")
        race == Column(env["test"], "race_white")
        mask == VecEq(employed, 1)
        bl_acc == accuracy(employed, env["bl_test_pred"])
        acc == accuracy(employed, env["test_pred"])
        bl_eo == equalized_odds_difference(Masked(employed, mask),
                                           AsNum(Masked(env["bl_test_pred"], mask)),
                                           Masked(race, mask))
        eo == equalized_odds_difference(Masked(employed, mask),
                                        AsNum(Masked(env["test_pred"], mask)),
                                        Masked(race, mask))
        bl_calib == calibration_difference(employed, env["bl_test_probs"], race)
        calib == calibration_difference(employed, env["test_probs"], race)
    IN Effect(("mask" :> mask) @@ ("bl_acc" :> bl_acc) @@ ("acc" :> acc)
              @@ ("bl_eo" :> bl_eo) @@ ("eo" :> eo)
              @@ ("bl_calib" :> bl_calib) @@ ("calib" :> calib),
              <<Printed("Baseline accuracy: ", Term(".3f", bl_acc)),
                Printed("Accuracy: ", Term(".3f", acc)),
                Printed("Baseline equal opportunity difference: ", FmtFixed(bl_eo, 3)),
                Printed("Equal opportunity difference: ", FmtFixed(eo, 3)),
                Printed("Baseline calibration: ", Term(".3f", bl_calib)),
                Printed("Calibration: ", Term(".3f", calib))>>,
              <<MetricCall("equalized_odds_difference", Masked(employed, mask),
                           AsNum(Masked(env["bl_test_pred"], mask)), Masked(race, mask)),
                MetricCall("equalized_odds_difference", Masked(employed, mask),
                           AsNum(Masked(env["test_pred"], mask)), Masked(race, mask))>>)

PleissEoppMetrics ==
    RunCell("pleiss", "eopp_metrics", PleissEoppMetricsCell(ns), "bl_cal")

\* calibration_curves(...) of the named scores: displayed, bound to no name
PleissCalCell(env, probs) ==
    Effect(<<>>, <<>>, <<ChartCall("calibration_curves")>>)

PleissBlCal == RunCell("pleiss", "bl_cal", PleissCalCell(ns, "bl_test_probs"), "eopp_cal")
PleissEoppCal == RunCell("pleiss", "eopp_cal", PleissCalCell(ns, "test_probs"), "eopp_bar")

PleissEoppBarCell(env) ==
    LET mask == VecEq(Column(env["test"], "employed_yes"), 1)
    IN Effect(("mask" :> mask)
              @@ ("eopp_bar" :>
                  Plot("group_bar_plots",
                       [values |-> Masked(env["bl_test_pred"], mask)
                                   \o Masked(env["test_pred"], mask),
                        attribute |-> Tile2(MapValues(Masked(Column(env["test"],
                                                                    "race_white"), mask),
                                                      "Black", "White")),
                        groups |-> ZerosLike(Masked(env["bl_test_probs"], mask))
                                   \o OnesLike(Masked(env["test_probs"], mask)),
                        group_names |-> <<"Baseline", "Pleiss">>])),
              <<>>, <<ChartCall("group_bar_plots")>>)

PleissEoppBar == RunCell("pleiss", "eopp_bar", PleissEoppBarCell(ns), "eopp_export")

PleissEoppExport ==
    RunCell("pleiss", "eopp_export",
            Effect(<<>>, <<>>, <<ExportCall("pleiss-eopp.json")>>), "eo_constraint")

PleissEoConstraint ==
    RunCell("pleiss", "eo_constraint",
            Effect("cost_constraint" :> "weighted", <<>>, <<>>), "eo_fit")

\* cpp = CalibratedEqOddsPostprocessing(...); cpp = cpp.fit(test_sds, test_sds_pred)
PleissEoFitCell(env, h) ==
    Effect("cpp" :> CalibratedEqOddsPostprocessing(env, env["test_sds"],
                                                   env["test_sds_pred"]),
           <<>>,
           <<FitCall("CalibratedEqOddsPostprocessing.fit", h,
                     env["test_sds"], env["test_sds_pred"])>>)

PleissEoFit == RunCell("pleiss", "eo_fit", PleissEoFitCell(ns, heap), "eo_apply")

PleissEoApply ==
    /\ nb = "pleiss" /\ pc = "eo_apply"
    /\ \E new_scores \in Scores(ns["test"]) :
           RunCell("pleiss", "eo_apply", PleissApplyCell(ns, heap, new_scores),
                   "eo_metrics")

\* accuracy, equalised odds and calibration, before and after
PleissEoMetricsCell(env) ==
    LET employed == Column(env["test"], "employed_yes")
        race == Column(env["test"], "race_white")
        bl_acc == accuracy(employed, env["bl_test_pred"])
        acc == accuracy(employed, env["test_pred"])
        bl_eo == equalized_odds_difference(employed, AsNum(env["bl_test_pred"]), race)
        eo == equalized_odds_difference(employed, AsNum(env["test_pred"]), race)
        bl_calib == calibration_difference(employed, env["bl_test_probs"], race)
        calib == calibration_difference(employed, env["test_probs"], race)
    IN Effect(("bl_acc" :> bl_acc) @@ ("acc" :> acc)
              @@ ("bl_eo" :> bl_eo) @@ ("eo" :> eo)
              @@ ("bl_calib" :> bl_calib) @@ ("calib" :> calib),
              <<Printed("Baseline accuracy: ", Term(".3f", bl_acc)),
                Printed("Accuracy: ", Term(".3f", acc)),
                Printed("Baseline equalised odds difference: ", FmtFixed(bl_eo, 3)),
                Printed("Equalised odds difference: ", FmtFixed(eo, 3)),
                Printed("Baseline calibration: ", Term(".3f", bl_calib)),
                Printed("Calibration: ", Term(".3f", calib))>>,
              <<MetricCall("equalized_odds_difference", employed,
                           AsNum(env["bl_test_pred"]), race),
                MetricCall("equalized_odds_difference", employed,
                           AsNum(env["test_pred"]), race)>>)

PleissEoMetrics == RunCell("pleiss", "eo_metrics", PleissEoMetricsCell(ns), "eo_cal")

PleissEoCal == RunCell("pleiss", "eo_cal", PleissCalCell(ns, "test_probs"), "bl_eo_bar")

PleissEoBarCell(env, name, pred) ==
    Effect(name :>
               Plot("group_bar_plots",
                    [values |-> env[pred],
                     attribute |-> MapValues(Column(env["test"], "race_white"),
                                             "Black", "White"),
                     groups |-> Column(env["test"], "employed_yes"),
                     group_names |-> <<"Not employed", "Employed">>]),
           <<>>, <<ChartCall("group_bar_plots")>>)

PleissBlEoBar ==
    RunCell("pleiss", "bl_eo_bar", PleissEoBarCell(ns, "bl_eo_bar", "bl_test_pred"),
            "eo_bar")
PleissEoBar ==
    RunCell("pleiss", "eo_bar", PleissEoBarCell(ns, "eo_bar", "test_pred"), "eo_export")

PleissEoExport ==
    RunCell("pleiss", "eo_export",
            Effect(<<>>, <<>>, <<ExportCall("pleiss-bl-eo.json"),
                                 ExportCall("pleiss-eo.json")>>), "done")

NextPleiss ==
    \/ PleissImports \/ PleissImportExport \/ PleissArtifactsDir
    \/ PleissArtifactsDirOverride \/ PleissLoadData \/ PleissDatasets
    \/ PleissGroups \/ PleissLoadModel \/ PleissPredict
    \/ PleissEoppConstraint \/ PleissEoppFit \/ PleissEoppApply \/ PleissEoppMetrics
    \/ PleissBlCal \/ PleissEoppCal \/ PleissEoppBar \/ PleissEoppExport
    \/ PleissEoConstraint \/ PleissEoFit \/ PleissEoApply \/ PleissEoMetrics
    \/ PleissEoCal \/ PleissBlEoBar \/ PleissEoBar \/ PleissEoExport

InitPleiss ==
    /\ nb = "pleiss"
    /\ pc = "imports"
    /\ \E n \in 1..MaxPleissRows : \E test \in RecruitingFrames(n) :
           disk = RecruitingDisk(ArtifactsDir4, test)

(***************************************************************************)
(* The metrics cells by themselves: the kernel stands in front of a        *)
(* metrics cell, and the namespace holds what the cell reads, drawn from   *)
(* every frame and every prediction vector of up to MaxMetricRows rows.    *)
(***************************************************************************)
InitMetricsFtu ==
    /\ nb = "ftu"
    /\ pc = "dp"
    /\ \E n \in 1..MaxMetricRows :
         \E test \in AdultFrames(n), bl \in [1..n -> ScoreVals],
            probs \in [1..n -> ScoreVals] :
           ns = ("test" :> test)
                @@ ("bl_test_probs" :> bl)
                @@ ("bl_test_labels" :> AsFloat(VecGt(bl, 5)))
                @@ ("test_probs" :> probs)
                @@ ("test_pred_labels" :> AsFloat(VecGt(probs, 5)))

InitMetricsKamishima ==
    /\ nb = "kamishima"
    /\ pc = "metrics"
    /\ \E n \in 1..MaxMetricRows :
         \E test \in RecruitingFrames(n), bl \in [1..n -> ScoreVals],
            probs \in [1..n -> ScoreVals] :
           ns = ("test" :> test)
                @@ ("bl_test_probs" :> bl)
                @@ ("bl_test_pred" :> VecGt(bl, 5))
                @@ ("test_probs" :> probs)
                @@ ("test_pred" :> VecGt(probs, 5))

InitMetrics ==
    /\ InitMetricsFtu \/ InitMetricsKamishima
    /\ heap = <<>>
    /\ out = <<>>
    /\ calls = <<>>
    /\ disk = <<>>

NextMetrics ==
    \/ FtuDemographicParity
    \/ KamishimaMetrics

SpecMetrics == InitMetrics /\ [][NextMetrics]_vars

(***************************************************************************)
(* C1                                                                      *)
(***************************************************************************)
Defined(name) == name \in DOMAIN ns

\* the demographic parity differences the notebook has reported, each with
\* the predictions and the protected attribute of the rows it is about
DpdReports ==
    IF ~Defined("test_dpd") THEN {}
    ELSE IF nb = "ftu" THEN
        {[d |-> ns["bl_test_dpd"], y |-> Column(ns["test"], "salary"),
          p |-> ns["bl_test_labels"], a |-> Column(ns["test"], "sex"),
          text |-> "Baseline demographic parity: "],
         [d |-> ns["test_dpd"], y |-> Column(ns["test"], "salary"),
          p |-> ns["test_pred_labels"], a |-> Column(ns["test"], "sex"),
          text |-> "Demographic parity: "]}
    ELSE IF nb = "kamishima" THEN
        {[d |-> ns["bl_test_dpd"], y |-> Column(ns["test"], "employed_yes"),
          p |-> AsNum(ns["bl_test_pred"]), a |-> Column(ns["test"], "race_white"),
          text |-> "Baseline demographic parity: "],
         [d |-> ns["test_dpd"], y |-> Column(ns["test"], "employed_yes"),
          p |-> AsNum(ns["test_pred"]), a |-> Column(ns["test"], "race_white"),
          text |-> "Demographic parity: "]}
    ELSE {}

\* the rows of group g, and those of them predicted positive
GroupSize(r, g) == Cardinality({i \in DOMAIN r.a : r.a[i] = g})
GroupPositives(r, g) == Cardinality({i \in DOMAIN r.a : r.a[i] = g /\ r.p[i] = 1})
BothGroups(r) == GroupSize(r, 0) > 0 /\ GroupSize(r, 1) > 0
\* the two group codes exchanged
CodesSwapped(a) == [i \in DOMAIN a |-> 1 - a[i]]

\* C1: for binary predictions and a binary protected attribute with both
\* groups non-empty, the reported demographic parity difference d is
\* |P(y_hat=1|A=0) - P(y_hat=1|A=1)|: with k_g of the n_g rows of group g
\* predicted positive, d * n_0 * n_1 = |k_0 * n_1 - k_1 * n_0|; d lies in
\* [0, 1]; d is 0 exactly when the two rates are equal; the same d comes out
\* with the two group codes exchanged; and it is what the cell prints.
C1_DemographicParityDifference ==
    \A r \in DpdReports :
        BothGroups(r) =>
            LET n0 == GroupSize(r, 0)
                n1 == GroupSize(r, 1)
                k0 == GroupPositives(r, 0)
                k1 == GroupPositives(r, 1)
            IN /\ r.d[2] > 0
               /\ 0 <= r.d[1] /\ r.d[1] <= r.d[2]
               /\ r.d[1] * n0 * n1 = AbsInt(k0 * n1 - k1 * n0) * r.d[2]
               /\ (r.d[1] = 0 <=> k0 * n1 = k1 * n0)
               /\ demographic_parity_difference(r.y, r.p, CodesSwapped(r.a)) = r.d
               /\ \E i \in DOMAIN out :
                      out[i].text = r.text /\ out[i].value = FmtFixed(r.d, 3)

\* a run in which both groups are non-empty, the baseline's difference is
\* strictly between 0 and 1 and the new model's is 0 with a positive rate
C1_Witness ==
    \E r, q \in DpdReports :
        /\ BothGroups(r) /\ BothGroups(q)
        /\ r.d = <<1, 2>>
        /\ q.d = <<0, 1>> /\ GroupPositives(q, 0) > 0

(***************************************************************************)
(* A run of a notebook from a fresh kernel.                                *)
(***************************************************************************)
Init ==
    /\ InitFtu \/ InitHardt \/ InitPleiss
    /\ ns = <<>>
    /\ heap = <<>>
    /\ out = <<>>
    /\ calls = <<>>

Next == NextFtu \/ NextHardt \/ NextPleiss

Spec == Init /\ [][Next]_vars

(***************************************************************************)
(* What the runs are checked against: the files as they are on disk.       *)
(***************************************************************************)
Splits == {"train", "val", "test"}
AdultFile(s) ==
    disk[Div(AdultProcessed(ArtifactsDir3),
             CASE s = "train" -> "train-one-hot.csv"
               [] s = "val" -> "val-one-hot.csv"
               [] s = "test" -> "test-one-hot.csv")]
RecruitingFile(s) ==
    disk[Div(RecruitingProcessed(IF nb = "pleiss" THEN ArtifactsDir4 ELSE ArtifactsDir3),
             CASE s = "train" -> "train.csv"
               [] s = "val" -> "val.csv"
               [] s = "test" -> "test.csv")]
SdsName(s) ==
    CASE s = "train" -> "train_sds" [] s = "val" -> "val_sds" [] s = "test" -> "test_sds"
FtuName(s) ==
    CASE s = "train" -> "train_ftu" [] s = "val" -> "val_ftu" [] s = "test" -> "test_ftu"
FitCalls == {i \in DOMAIN calls : "dataset_true" \in DOMAIN calls[i]}
PredictCalls == {i \in DOMAIN calls : "dataset" \in DOMAIN calls[i]}
MetricCalls == {i \in DOMAIN calls : "y_true" \in DOMAIN calls[i]}

(***************************************************************************)
(* C2                                                                      *)
(***************************************************************************)
\* C2: every post-processing intervention is fitted on the validation
\* dataset and the validation predictions, never on the test dataset or the
\* test predictions, and every predict call of an intervention receives the
\* test predictions.
C2_FitOnValidationPredictOnTest ==
    /\ \A i \in FitCalls :
           /\ calls[i].dataset_true = ns["val_sds"]
           /\ calls[i].dataset_pred = ns["val_sds_pred"]
           /\ calls[i].dataset_true # ns["test_sds"]
           /\ calls[i].dataset_pred # ns["test_sds_pred"]
    /\ \A i \in PredictCalls : calls[i].dataset = ns["test_sds_pred"]

\* the Pleiss notebook after its equalised odds section has fitted: the fit
\* has received the test dataset and the test predictions, and the predict
\* call after it receives the same test predictions
C2_Witness ==
    /\ nb = "pleiss"
    /\ \E i \in FitCalls, j \in PredictCalls :
           /\ i < j
           /\ calls[i].dataset_true = ns["test_sds"]
           /\ calls[i].dataset_pred = ns["test_sds_pred"]
           /\ calls[j].dataset = ns["test_sds_pred"]

(***************************************************************************)
(* C3                                                                      *)
(***************************************************************************)
HardtPrinted == nb = "hardt" /\ pc \in {"eod", "eo_bar", "done"}
\* the rate of the rows of one race in the test data, as the print formats it
RaceRate(rate(_, _, _), race) ==
    FmtFixed(rate(Column(ns["test"], "employed_yes"), Flatten(ns["test_scores"]),
                  GroupRows(Column(ns["test"], "race_white"), race)), 4)
LineValue(text) == {out[i].value : i \in {k \in DOMAIN out : out[k].text = text}}

\* C3: in the recruiting notebook of Hardt et al. the value printed as the
\* Black false negative (positive) rate is the rate over the test rows with
\* race_white = 0, and the value printed as the White rate is the rate over
\* the rows with race_white = 1.
C3_RatesPrintedUnderTheirGroup ==
    HardtPrinted =>
        /\ LineValue("Black false negative rate ") = {RaceRate(fnr_rows, 0)}
        /\ LineValue("White false negative rate ") = {RaceRate(fnr_rows, 1)}
        /\ LineValue("Black false positive rate ") = {RaceRate(fpr_rows, 0)}
        /\ LineValue("White false positive rate ") = {RaceRate(fpr_rows, 1)}

\* a run in which the two races have different false negative rates and the
\* line for Black applicants shows the rate of the White applicants
C3_Witness ==
    /\ HardtPrinted
    /\ RaceRate(fnr_rows, 0) # RaceRate(fnr_rows, 1)
    /\ LineValue("Black false negative rate ") = {RaceRate(fnr_rows, 1)}
    /\ LineValue("White false negative rate ") = {RaceRate(fnr_rows, 0)}

(***************************************************************************)
(* C4                                                                      *)
(***************************************************************************)
TrueLabels(s) == Reshape(Column(RecruitingFile(s), "employed_yes"))

\* C4: the loaded data stays as it was read.  In the Hardt and Pleiss
\* notebooks the frames and the datasets built from them keep the labels,
\* scores and features of the files after the baseline predictions have
\* been written into val_sds_pred and test_sds_pred, which are other
\* objects, so that every fit receives the true labels as ground truth; in
\* the FTU notebook train, val and test keep every column of their files,
\* sex included, after train_ftu, val_ftu and test_ftu have been built.
C4_LoadedDataReadOnly ==
    /\ (nb \in {"hardt", "pleiss"} /\ Defined("test_sds")) =>
           \A s \in Splits :
               /\ ns[s] = RecruitingFile(s)
               /\ heap[ns[SdsName(s)]].labels = TrueLabels(s)
               /\ heap[ns[SdsName(s)]].scores = TrueLabels(s)
               /\ heap[ns[SdsName(s)]].features
                      = DfDrop(RecruitingFile(s), "employed_yes").rows
    /\ (nb \in {"hardt", "pleiss"} /\ Defined("test_sds_pred")) =>
           /\ ns["val_sds_pred"] # ns["val_sds"]
           /\ ns["test_sds_pred"] # ns["test_sds"]
    /\ \A i \in FitCalls :
           \E s \in Splits :
               /\ calls[i].dataset_true = ns[SdsName(s)]
               /\ calls[i].true_labels = TrueLabels(s)
    /\ (nb = "ftu" /\ Defined("test")) =>
           \A s \in Splits :
               /\ ns[s] = AdultFile(s)
               /\ "sex" \in Range(ns[s].cols)
               /\ \A i \in DOMAIN ns[s].rows : "sex" \in DOMAIN ns[s].rows[i]

\* the Hardt notebook at its end, the baseline's labels written into both
\* copies being other than the true labels
C4_Witness ==
    /\ nb = "hardt" /\ pc = "done"
    /\ FitCalls # {}
    /\ heap[ns["val_sds_pred"]].labels # heap[ns["val_sds"]].labels
    /\ heap[ns["test_sds_pred"]].labels # heap[ns["test_sds"]].labels

(***************************************************************************)
(* C5                                                                      *)
(***************************************************************************)
AllRows(x) == [i \in DOMAIN x |-> TRUE]
\* the masks the FTU notebook's metric cells put on their arrays
FtuMasks == {AllRows(AdultFile("test").rows),
             VecEq(Column(AdultFile("test"), "salary"), 1)}
FtuMetricCalls(fn, mask) ==
    {i \in MetricCalls :
         /\ calls[i].fn = fn
         /\ calls[i].y_pred = Masked(ns["test_pred_labels"], mask)
         /\ calls[i].sensitive_features = Masked(Column(AdultFile("test"), "sex"), mask)}

\* C5: in the FTU notebook train_ftu, val_ftu and test_ftu are the loaded
\* frames without the column sex and nothing else changed, the FTU model is
\* given neither sex nor salary, and every fairness metric is given the sex
\* column of the unmodified test data as its groups, row for row with the
\* labels and the predictions.
C5_FtuExcludesSex ==
    nb = "ftu" =>
        /\ Defined("test_ftu") =>
               \A s \in Splits :
                   LET f == AdultFile(s)
                       g == ns[FtuName(s)]
                   IN /\ g.cols = SelectSeq(f.cols, LAMBDA c : c # "sex")
                      /\ Len(g.rows) = Len(f.rows)
                      /\ \A i \in DOMAIN g.rows :
                             /\ DOMAIN g.rows[i] = Range(g.cols)
                             /\ \A c \in Range(g.cols) : g.rows[i][c] = f.rows[i][c]
        /\ \A i \in DOMAIN calls :
               (calls[i].fn = "predict_proba" /\ calls[i].model = Pickle("ftu")) =>
                   /\ "sex" \notin Range(calls[i].cols)
                   /\ "salary" \notin Range(calls[i].cols)
                   /\ calls[i].cols = SelectSeq(AdultFile("test").cols,
                                                LAMBDA c : c \notin {"sex", "salary"})
        /\ \A i \in MetricCalls :
               \E mask \in FtuMasks :
                   /\ calls[i].sensitive_features
                          = Masked(Column(AdultFile("test"), "sex"), mask)
                   /\ calls[i].y_true = Masked(Column(AdultFile("test"), "salary"), mask)
                   /\ calls[i].y_pred \in {Masked(ns["bl_test_labels"], mask),
                                           Masked(ns["test_pred_labels"], mask)}
        /\ pc = "done" =>
               /\ FtuMetricCalls("demographic_parity_difference",
                                 AllRows(AdultFile("test").rows)) # {}
               /\ FtuMetricCalls("equalized_odds_difference",
                                 AllRows(AdultFile("test").rows)) # {}
               /\ FtuMetricCalls("equalized_odds_difference",
                                 VecEq(Column(AdultFile("test"), "salary"), 1)) # {}

\* the FTU notebook at its end on test data with both sexes and both
\* salaries, the FTU model's labels being other than the baseline's
C5_Witness ==
    /\ nb = "ftu" /\ pc = "done"
    /\ Range(Column(ns["test"], "sex")) = {0, 1}
    /\ Range(Column(ns["test"], "salary")) = {0, 1}
    /\ ns["test_pred_labels"] # ns["bl_test_labels"]
    /\ \E i \in DOMAIN calls :
           calls[i].fn = "predict_proba" /\ calls[i].model = Pickle("ftu")

(***************************************************************************)
(* The notebooks as the kernel sees them: code cells of statements.  A     *)
(* statement is what it reads, what it binds and the calls it makes, in    *)
(* the order Python evaluates them; pandas and numpy array arithmetic is   *)
(* left out of the calls.                                                  *)
(***************************************************************************)
NoPath == [root |-> "", parts |-> <<>>]
\* root / "a" / "b", and a string literal
At(root, parts) == [root |-> root, parts |-> parts]
Lit(parts) == [root |-> "", parts |-> parts]
\* recv.fn(args): recv is "" for a call of a plain name
Call(recv, fn, args) == [recv |-> recv, fn |-> fn, args |-> args, path |-> NoPath]
\* the receiver of a method called on what the call before it returned
Result == "<result>"
\* a call whose first argument is a path
CallAt(recv, fn, path) == [recv |-> recv, fn |-> fn, args |-> <<>>, path |-> path]

Statement(op, binds, reads, mutates, made, module, path) ==
    [op |-> op, binds |-> binds, reads |-> reads, mutates |-> mutates,
     calls |-> made, module |-> module, path |-> path]
\* import module as name, from module import name
Import(name, module) == Statement("import", {name}, {}, {}, <<>>, module, NoPath)
\* name = expression
Assign(binds, reads, made) == Statement("assign", binds, reads, {}, made, <<>>, NoPath)
\* name = root / "a" / "b"
PathAssign(name, root, parts) ==
    Statement("path", {name}, {root}, {}, <<>>, <<>>, At(root, parts))
\* an expression by itself
Expr(reads, made) == Statement("expr", {}, reads, {}, made, <<>>, NoPath)
\* name.attribute = expression, name[key] = expression
Store(mutates, reads, made) == Statement("store", {}, reads, mutates, made, <<>>, NoPath)
\* def name(...): the names its body reads from outside
Def(name, reads) == Statement("def", {name}, reads, {}, <<>>, <<>>, NoPath)
\* assert expression
Check(reads) == Statement("assert", {}, reads, {}, <<>>, <<>>, NoPath)

\* a code cell: its source lines, its tags and its statements
Cell(first, last, tags, stmts) ==
    [first |-> first, last |-> last, tags |-> tags, stmts |-> stmts]

\* the code cells of ftu.ipynb, lines 22-407
FtuNotebook ==
    <<
    Cell(22, 33, {},
        <<Import("Path", <<"pathlib", "Path">>),
          Import("joblib", <<"joblib">>),
          Import("np", <<"numpy">>),
          Import("pd", <<"pandas">>),
          Import("demographic_parity_difference",
                 <<"fairlearn", "metrics", "demographic_parity_difference">>),
          Import("equalized_odds_difference",
                 <<"fairlearn", "metrics", "equalized_odds_difference">>),
          Import("MLPClassifier", <<"sklearn", "neural_network", "MLPClassifier">>),
          Import("accuracy", <<"helpers", "metrics", "accuracy">>),
          Import("group_bar_plots", <<"helpers", "plot", "group_bar_plots">>),
          Import("group_box_plots", <<"helpers", "plot", "group_box_plots">>),
          Import("calibration_curves", <<"helpers", "plot", "calibration_curves">>)>>),
    Cell(50, 50, {},
        <<Assign({"artifacts_dir"},
                 {"Path"},
                 <<CallAt("", "Path", Lit(<<"..", "..", "..", "artifacts">>))>>)>>),
    Cell(59, 63, {},
        <<PathAssign("data_dir", "artifacts_dir", <<"data", "adult">>),
          Assign({"train"},
                 {"data_dir", "pd"},
                 <<CallAt("pd", "read_csv", At("data_dir", <<"processed", "train-one-hot.csv">>))>>),
          Assign({"val"},
                 {"data_dir", "pd"},
                 <<CallAt("pd", "read_csv", At("data_dir", <<"processed", "val-one-hot.csv">>))>>),
          Assign({"test"},
                 {"data_dir", "pd"},
                 <<CallAt("pd", "read_csv", At("data_dir", <<"processed", "test-one-hot.csv">>))>>)>>),
    Cell(81, 83, {},
        <<Assign({"baseline_model"},
                 {"artifacts_dir", "joblib"},
                 <<CallAt("joblib", "load", At("artifacts_dir", <<"models", "finance", "baseline.pkl">>))>>)>>),
    Cell(99, 100, {},
        <<Assign({"bl_test_probs"},
                 {"baseline_model", "test"},
                 <<Call("baseline_model", "predict_proba", <<>>)>>),
          Assign({"bl_test_labels"}, {"bl_test_probs", "float"}, <<>>)>>),
    Cell(123, 125, {},
        <<Assign({"train_ftu"}, {"train"}, <<Call("train", "copy", <<>>)>>),
          Assign({"val_ftu"}, {"val"}, <<Call("val", "copy", <<>>)>>),
          Assign({"test_ftu"}, {"test"}, <<Call("test", "copy", <<>>)>>)>>),
    Cell(141, 142, {}, <<>>),
    Cell(151, 151, {},
        <<Assign({"ftu_model"},
                 {"artifacts_dir", "joblib"},
                 <<CallAt("joblib", "load", At("artifacts_dir", <<"models", "finance", "ftu.pkl">>))>>)>>),
    Cell(167, 168, {},
        <<Assign({"test_probs"},
                 {"ftu_model", "test_ftu"},
                 <<Call("ftu_model", "predict_proba", <<>>)>>),
          Assign({"test_pred_labels"}, {"float", "test_probs"}, <<>>)>>),
    Cell(186, 206, {},
        <<Assign({"test_sex"}, {"test"}, <<>>),
          Assign({"test_salary"}, {"test"}, <<>>),
          Assign({"mask"}, {"test_sex"}, <<>>),
          Assign({"bl_test_acc"},
                 {"accuracy", "bl_test_labels", "test_salary"},
                 <<Call("", "accuracy", <<"test_salary", "bl_test_labels">>)>>),
          Assign({"bl_test_dpd"},
                 {"bl_test_labels", "demographic_parity_difference", "test_salary", "test_sex"},
                 <<Call("", "demographic_parity_difference", <<"test_salary", "bl_test_labels", "test_sex">>)>>),
          Assign({"test_acc"},
                 {"accuracy", "test_pred_labels", "test_salary"},
                 <<Call("", "accuracy", <<"test_salary", "test_pred_labels">>)>>),
          Assign({"test_dpd"},
                 {"demographic_parity_difference", "test_pred_labels", "test_salary", "test_sex"},
                 <<Call("", "demographic_parity_difference", <<"test_salary", "test_pred_labels", "test_sex">>)>>),
          Expr({"bl_test_acc", "print"}, <<>>),
          Expr({"print", "test_acc"}, <<>>),
          Expr({"bl_test_dpd", "print"}, <<>>),
          Expr({"print", "test_dpd"}, <<>>)>>),
    Cell(215, 226, {},
        <<Assign({"dp_box"},
                 {"bl_test_probs", "group_box_plots", "np", "test", "test_probs"},
                 <<Call("", "group_box_plots", <<>>)>>),
          Expr({"dp_box"}, <<>>)>>),
    Cell(244, 264, {},
        <<Assign({"test_sex"}, {"test"}, <<>>),
          Assign({"test_salary"}, {"test"}, <<>>),
          Assign({"mask"}, {"test_sex"}, <<>>),
          Assign({"bl_test_acc"},
                 {"accuracy", "bl_test_labels", "test_salary"},
                 <<Call("", "accuracy", <<"test_salary", "bl_test_labels">>)>>),
          Assign({"bl_test_eod"},
                 {"bl_test_labels", "equalized_odds_difference", "test_salary", "test_sex"},
                 <<Call("", "equalized_odds_difference", <<"test_salary", "bl_test_labels", "test_sex">>)>>),
          Assign({"test_acc"},
                 {"accuracy", "test_pred_labels", "test_salary"},
                 <<Call("", "accuracy", <<"test_pred_labels", "test_salary">>)>>),
          Assign({"test_eod"},
                 {"equalized_odds_difference", "test_pred_labels", "test_salary", "test_sex"},
                 <<Call("", "equalized_odds_difference", <<"test_salary", "test_pred_labels", "test_sex">>)>>),
          Expr({"bl_test_acc", "print"}, <<>>),
          Expr({"print", "test_acc"}, <<>>),
          Expr({"bl_test_eod", "print"}, <<>>),
          Expr({"print", "test_eod"}, <<>>)>>),
    Cell(273, 282, {},
        <<Assign({"bl_eo_bar"},
                 {"bl_test_probs", "group_bar_plots", "test"},
                 <<Call("", "group_bar_plots", <<"bl_test_probs">>)>>),
          Expr({"bl_eo_bar"}, <<>>)>>),
    Cell(291, 300, {},
        <<Assign({"eo_bar"},
                 {"group_bar_plots", "test", "test_probs"},
                 <<Call("", "group_bar_plots", <<"test_probs">>)>>),
          Expr({"eo_bar"}, <<>>)>>),
    Cell(318, 342, {},
        <<Assign({"test_sex"}, {"test"}, <<>>),
          Assign({"test_salary"}, {"test"}, <<>>),
          Assign({"mask"}, {"test_sex"}, <<>>),
          Assign({"bl_test_acc"},
                 {"accuracy", "bl_test_probs", "test_salary"},
                 <<Call("", "accuracy", <<"test_salary", "bl_test_probs">>)>>),
          Assign({"bl_test_eoppd"},
                 {"bl_test_labels", "equalized_odds_difference", "test", "test_salary", "test_sex"},
                 <<Call("", "equalized_odds_difference", <<>>)>>),
          Assign({"test_acc"},
                 {"accuracy", "test_pred_labels", "test_salary"},
                 <<Call("", "accuracy", <<"test_salary", "test_pred_labels">>)>>),
          Assign({"test_eoppd"},
                 {"equalized_odds_difference", "test", "test_pred_labels", "test_salary", "test_sex"},
                 <<Call("", "equalized_odds_difference", <<>>)>>),
          Expr({"bl_test_acc", "print"}, <<>>),
          Expr({"print", "test_acc"}, <<>>),
          Expr({"bl_test_eoppd", "print"}, <<>>),
          Expr({"print", "test_eoppd"}, <<>>)>>),
    Cell(351, 364, {},
        <<Assign({"mask"}, {"test"}, <<>>),
          Assign({"eopp_bar"},
                 {"bl_test_labels", "bl_test_probs", "group_bar_plots", "mask", "np", "test", "test_pred_labels", "test_probs"},
                 <<Call("", "group_bar_plots", <<>>)>>),
          Expr({"eopp_bar"}, <<>>)>>),
    Cell(382, 390, {},
        <<Assign({"bl_cal_line"},
                 {"bl_test_probs", "calibration_curves", "test"},
                 <<Call("", "calibration_curves", <<"bl_test_probs">>)>>),
          Expr({"bl_cal_line"}, <<>>)>>),
    Cell(399, 407, {},
        <<Assign({"ftu_cal_line"},
                 {"calibration_curves", "test", "test_probs"},
                 <<Call("", "calibration_curves", <<"test_probs">>)>>),
          Expr({"ftu_cal_line"}, <<>>)>>)
    >>

\* the code cells of ftu.ipynb, lines 455-736
HardtAdultNotebook ==
    <<
    Cell(455, 470, {},
        <<Import("Path", <<"pathlib", "Path">>),
          Import("joblib", <<"joblib">>),
          Import("np", <<"numpy">>),
          Import("pd", <<"pandas">>),
          Import("EqOddsPostprocessing",
                 <<"aif360", "algorithms", "postprocessing", "eq_odds_postprocessing", "EqOddsPostprocessing">>),
          Import("StandardDataset", <<"aif360", "datasets", "StandardDataset">>),
          Import("equalized_odds_difference",
                 <<"fairlearn", "metrics", "equalized_odds_difference">>),
          Import("false_negative_rate", <<"fairlearn", "metrics", "false_negative_rate">>),
          Import("false_positive_rate", <<"fairlearn", "metrics", "false_positive_rate">>),
          Import("accuracy", <<"helpers", "metrics", "accuracy">>),
          Import("group_bar_plots", <<"helpers", "plot", "group_bar_plots">>)>>),
    Cell(495, 495, {},
        <<Assign({"artifacts_dir"},
                 {"Path"},
                 <<CallAt("", "Path", Lit(<<"..", "..", "..", "artifacts">>))>>)>>),
    Cell(504, 508, {},
        <<PathAssign("data_dir", "artifacts_dir", <<"data", "adult">>),
          Assign({"train"},
                 {"data_dir", "pd"},
                 <<CallAt("pd", "read_csv", At("data_dir", <<"processed", "train-one-hot.csv">>))>>),
          Assign({"val"},
                 {"data_dir", "pd"},
                 <<CallAt("pd", "read_csv", At("data_dir", <<"processed", "val-one-hot.csv">>))>>),
          Assign({"test"},
                 {"data_dir", "pd"},
                 <<CallAt("pd", "read_csv", At("data_dir", <<"processed", "test-one-hot.csv">>))>>)>>),
    Cell(524, 545, {},
        <<Assign({"train_sds"},
                 {"StandardDataset", "train"},
                 <<Call("", "StandardDataset", <<"train">>)>>),
          Assign({"test_sds"},
                 {"StandardDataset", "test"},
                 <<Call("", "StandardDataset", <<"test">>)>>),
          Assign({"val_sds"},
                 {"StandardDataset", "val"},
                 <<Call("", "StandardDataset", <<"val">>)>>),
          Assign({"index"}, {"train_sds"}, <<>>)>>),
    Cell(561, 562, {},
        <<Assign({"privileged_groups"}, {}, <<>>),
          Assign({"unprivileged_groups"}, {}, <<>>)>>),
    Cell(580, 580, {},
        <<Assign({"bl_model"},
                 {"artifacts_dir", "joblib"},
                 <<CallAt("joblib", "load", At("artifacts_dir", <<"models", "finance", "baseline.pkl">>))>>)>>),
    Cell(596, 602, {},
        <<Assign({"bl_val_pred"}, {"bl_model", "val"}, <<Call("bl_model", "predict", <<>>)>>),
          Assign({"val_sds_pred"}, {"val_sds"}, <<Call("val_sds", "copy", <<>>)>>),
          Store({"val_sds_pred"}, {"bl_val_pred", "val_sds_pred"}, <<>>),
          Assign({"bl_test_pred"}, {"bl_model", "test"}, <<Call("bl_model", "predict", <<>>)>>),
          Assign({"test_sds_pred"}, {"test_sds"}, <<Call("test_sds", "copy", <<>>)>>),
          Store({"test_sds_pred"}, {"bl_test_pred", "test_sds_pred"}, <<>>)>>),
    Cell(621, 627, {},
        <<Assign({"eopp"},
                 {"EqOddsPostprocessing", "np", "privileged_groups", "unprivileged_groups"},
                 <<Call("", "EqOddsPostprocessing", <<"privileged_groups", "unprivileged_groups">>)>>),
          Assign({"eopp"},
                 {"eopp", "val_sds", "val_sds_pred"},
                 <<Call("eopp", "fit", <<"val_sds", "val_sds_pred">>)>>)>>),
    Cell(643, 644, {},
        <<Assign({"test_sds_pred_tranf"},
                 {"eopp", "test_sds_pred"},
                 <<Call("eopp", "predict", <<"test_sds_pred">>)>>),
          Assign({"test_scores"}, {"test_sds_pred_tranf"}, <<>>)>>),
    Cell(660, 671, {},
        <<Assign({"mask"}, {"test"}, <<>>),
          Assign({"male_fnr"},
                 {"false_negative_rate", "mask", "test", "test_scores"},
                 <<Call("", "false_negative_rate", <<>>)>>),
          Assign({"female_fnr"},
                 {"false_negative_rate", "mask", "test", "test_scores"},
                 <<Call("", "false_negative_rate", <<>>)>>),
          Assign({"fnr_diff"}, {"female_fnr", "male_fnr", "np"}, <<>>),
          Assign({"male_fpr"},
                 {"false_positive_rate", "mask", "test", "test_scores"},
                 <<Call("", "false_positive_rate", <<>>)>>),
          Assign({"female_fpr"},
                 {"false_positive_rate", "mask", "test", "test_scores"},
                 <<Call("", "false_positive_rate", <<>>)>>),
          Assign({"fpr_diff"}, {"female_fpr", "male_fpr", "np"}, <<>>),
          Expr({"fpr_diff", "print"}, <<>>),
          Expr({"fnr_diff", "print"}, <<>>)>>),
    Cell(680, 698, {},
        <<Assign({"acc"}, {"accuracy", "test", "test_scores"}, <<Call("", "accuracy", <<>>)>>),
          Assign({"female_acc"},
                 {"accuracy", "test", "test_scores"},
                 <<Call("", "accuracy", <<>>)>>),
          Assign({"male_acc"},
                 {"accuracy", "test", "test_scores"},
                 <<Call("", "accuracy", <<>>)>>),
          Expr({"acc", "print"}, <<>>),
          Expr({"female_acc", "print"}, <<>>),
          Expr({"male_acc", "print"}, <<>>),
          Expr({"male_fnr", "print"}, <<>>),
          Expr({"female_fnr", "print"}, <<>>),
          Expr({"male_fpr", "print"}, <<>>),
          Expr({"female_fpr", "print"}, <<>>)>>),
    Cell(707, 711, {},
        <<Assign({"eod"},
                 {"equalized_odds_difference", "test", "test_scores"},
                 <<Call("", "equalized_odds_difference", <<>>)>>),
          Expr({"eod", "print"}, <<>>)>>),
    Cell(727, 736, {},
        <<Assign({"eo_bar"},
                 {"group_bar_plots", "test", "test_scores"},
                 <<Call("", "group_bar_plots", <<"test_scores">>)>>),
          Expr({"eo_bar"}, <<>>)>>)
    >>

\* the code cells of ftu.ipynb, lines 795-1021
FeldmanAdultNotebook ==
    <<
    Cell(795, 807, {},
        <<Import("Path", <<"pathlib", "Path">>),
          Import("joblib", <<"joblib">>),
          Import("np", <<"numpy">>),
          Import("pd", <<"pandas">>),
          Import("StandardDataset", <<"aif360", "datasets", "StandardDataset">>),
          Import("DisparateImpactRemover",
                 <<"aif360", "algorithms", "preprocessing", "DisparateImpactRemover">>),
          Import("demographic_parity_difference",
                 <<"fairlearn", "metrics", "demographic_parity_difference">>),
          Import("demographic_parity_ratio",
                 <<"fairlearn", "metrics", "demographic_parity_ratio">>),
          Import("group_box_plots", <<"helpers", "plot", "group_box_plots">>),
          Import("MLPClassifier", <<"sklearn", "neural_network", "MLPClassifier">>)>>),
    Cell(825, 825, {},
        <<Assign({"artifacts_dir"},
                 {"Path"},
                 <<CallAt("", "Path", Lit(<<"..", "..", "..", "artifacts">>))>>)>>),
    Cell(834, 838, {},
        <<PathAssign("data_dir", "artifacts_dir", <<"data", "adult">>),
          Assign({"train_oh"},
                 {"data_dir", "pd"},
                 <<CallAt("pd", "read_csv", At("data_dir", <<"processed", "train-one-hot.csv">>))>>),
          Assign({"val_oh"},
                 {"data_dir", "pd"},
                 <<CallAt("pd", "read_csv", At("data_dir", <<"processed", "val-one-hot.csv">>))>>),
          Assign({"test_oh"},
                 {"data_dir", "pd"},
                 <<CallAt("pd", "read_csv", At("data_dir", <<"processed", "test-one-hot.csv">>))>>)>>),
    Cell(854, 875, {},
        <<Assign({"train_sds"},
                 {"StandardDataset", "train_oh"},
                 <<Call("", "StandardDataset", <<"train_oh">>)>>),
          Assign({"val_sds"},
                 {"StandardDataset", "val_oh"},
                 <<Call("", "StandardDataset", <<"val_oh">>)>>),
          Assign({"test_sds"},
                 {"StandardDataset", "test_oh"},
                 <<Call("", "StandardDataset", <<"test_oh">>)>>),
          Assign({"index"}, {"train_sds"}, <<>>)>>),
    Cell(893, 896, {},
        <<Assign({"bl_model"},
                 {"artifacts_dir", "joblib"},
                 <<CallAt("joblib", "load", At("artifacts_dir", <<"models", "finance", "baseline.pkl">>))>>),
          Assign({"bl_test_probs"},
                 {"bl_model", "test_sds"},
                 <<Call("bl_model", "predict_proba", <<>>)>>),
          Assign({"bl_test_pred"}, {"bl_test_probs"}, <<>>)>>),
    Cell(914, 922, {},
        <<Assign({"di"},
                 {"DisparateImpactRemover"},
                 <<Call("", "DisparateImpactRemover", <<>>)>>),
          Assign({"train_repd"},
                 {"di", "train_sds"},
                 <<Call("di", "fit_transform", <<"train_sds">>)>>),
          Assign({"train_repd_X"}, {"index", "np", "train_repd"}, <<>>),
          Assign({"train_repd_y"}, {"train_repd"}, <<>>),
          Assign({"test_repd"},
                 {"di", "test_sds"},
                 <<Call("di", "fit_transform", <<"test_sds">>)>>),
          Assign({"test_repd_X"}, {"index", "np", "test_repd"}, <<>>),
          Assign({"test_repd_y"}, {"test_repd"}, <<>>)>>),
    Cell(940, 940, {},
        <<Assign({"model"},
                 {"artifacts_dir", "joblib"},
                 <<CallAt("joblib", "load", At("artifacts_dir", <<"models", "finance", "feldman.pkl">>))>>)>>),
    Cell(949, 953, {},
        <<Assign({"test_probs"},
                 {"model", "test_repd_X"},
                 <<Call("model", "predict_proba", <<"test_repd_X">>)>>),
          Assign({"test_pred"}, {"test_probs"}, <<>>)>>),
    Cell(971, 994, {},
        <<Assign({"bl_acc"}, {"bl_model", "test_oh"}, <<Call("bl_model", "score", <<>>)>>),
          Assign({"bl_dpd"},
                 {"bl_test_pred", "demographic_parity_difference", "test_oh"},
                 <<Call("", "demographic_parity_difference", <<"bl_test_pred">>)>>),
          Assign({"bl_dpr"},
                 {"bl_test_pred", "demographic_parity_ratio", "test_oh"},
                 <<Call("", "demographic_parity_ratio", <<"bl_test_pred">>)>>),
          Assign({"acc"},
                 {"model", "test_oh", "test_repd_X"},
                 <<Call("model", "score", <<"test_repd_X">>)>>),
          Assign({"dpd"},
                 {"demographic_parity_difference", "test_oh", "test_pred"},
                 <<Call("", "demographic_parity_difference", <<"test_pred">>)>>),
          Assign({"dpr"},
                 {"demographic_parity_ratio", "test_oh", "test_pred"},
                 <<Call("", "demographic_parity_ratio", <<"test_pred">>)>>),
          Expr({"bl_acc", "print"}, <<>>),
          Expr({"acc", "print"}, <<>>),
          Expr({"bl_dpd", "print"}, <<>>),
          Expr({"dpd", "print"}, <<>>),
          Expr({"bl_dpr", "print"}, <<>>),
          Expr({"dpr", "print"}, <<>>)>>),
    Cell(1010, 1021, {},
        <<Assign({"dp_box"},
                 {"bl_test_probs", "group_box_plots", "np", "test_oh", "test_probs"},
                 <<Call("", "group_box_plots", <<>>)>>),
          Expr({"dp_box"}, <<>>)>>)
    >>

\* the code cells of unnamed/part_001, lines 22-302
HardtNotebook ==
    <<
    Cell(22, 37, {},
        <<Import("Path", <<"pathlib", "Path">>),
          Import("joblib", <<"joblib">>),
          Import("np", <<"numpy">>),
          Import("pd", <<"pandas">>),
          Import("EqOddsPostprocessing",
                 <<"aif360", "algorithms", "postprocessing", "eq_odds_postprocessing", "EqOddsPostprocessing">>),
          Import("StandardDataset", <<"aif360", "datasets", "StandardDataset">>),
          Import("equalized_odds_difference",
                 <<"fairlearn", "metrics", "equalized_odds_difference">>),
          Import("false_negative_rate", <<"fairlearn", "metrics", "false_negative_rate">>),
          Import("false_positive_rate", <<"fairlearn", "metrics", "false_positive_rate">>),
          Import("accuracy", <<"helpers", "metrics", "accuracy">>),
          Import("group_bar_plots", <<"helpers", "plot", "group_bar_plots">>)>>),
    Cell(55, 55, {},
        <<Assign({"artifacts_dir"},
                 {"Path"},
                 <<CallAt("", "Path", Lit(<<"..", "..", "..", "artifacts">>))>>)>>),
    Cell(64, 68, {},
        <<PathAssign("data_dir", "artifacts_dir", <<"data", "recruiting">>),
          Assign({"train"},
                 {"data_dir", "pd"},
                 <<CallAt("pd", "read_csv", At("data_dir", <<"processed", "train.csv">>))>>),
          Assign({"val"},
                 {"data_dir", "pd"},
                 <<CallAt("pd", "read_csv", At("data_dir", <<"processed", "val.csv">>))>>),
          Assign({"test"},
                 {"data_dir", "pd"},
                 <<CallAt("pd", "read_csv", At("data_dir", <<"processed", "test.csv">>))>>)>>),
    Cell(84, 105, {},
        <<Assign({"train_sds"},
                 {"StandardDataset", "train"},
                 <<Call("", "StandardDataset", <<"train">>)>>),
          Assign({"test_sds"},
                 {"StandardDataset", "test"},
                 <<Call("", "StandardDataset", <<"test">>)>>),
          Assign({"val_sds"},
                 {"StandardDataset", "val"},
                 <<Call("", "StandardDataset", <<"val">>)>>),
          Assign({"index"}, {"train_sds"}, <<>>)>>),
    Cell(121, 122, {},
        <<Assign({"privileged_groups"}, {}, <<>>),
          Assign({"unprivileged_groups"}, {}, <<>>)>>),
    Cell(140, 142, {},
        <<Assign({"bl_model"},
                 {"artifacts_dir", "joblib"},
                 <<CallAt("joblib", "load", At("artifacts_dir", <<"models", "recruiting", "baseline.pkl">>))>>)>>),
    Cell(158, 164, {},
        <<Assign({"bl_val_pred"}, {"bl_model", "val"}, <<Call("bl_model", "predict", <<>>)>>),
          Assign({"val_sds_pred"}, {"val_sds"}, <<Call("val_sds", "copy", <<>>)>>),
          Store({"val_sds_pred"}, {"bl_val_pred", "val_sds_pred"}, <<>>),
          Assign({"bl_test_pred"}, {"bl_model", "test"}, <<Call("bl_model", "predict", <<>>)>>),
          Assign({"test_sds_pred"}, {"test_sds"}, <<Call("test_sds", "copy", <<>>)>>),
          Store({"test_sds_pred"}, {"bl_test_pred", "test_sds_pred"}, <<>>)>>),
    Cell(183, 189, {},
        <<Assign({"eopp"},
                 {"EqOddsPostprocessing", "np", "privileged_groups", "unprivileged_groups"},
                 <<Call("", "EqOddsPostprocessing", <<"privileged_groups", "unprivileged_groups">>)>>),
          Assign({"eopp"},
                 {"eopp", "val_sds", "val_sds_pred"},
                 <<Call("eopp", "fit", <<"val_sds", "val_sds_pred">>)>>)>>),
    Cell(205, 206, {},
        <<Assign({"test_sds_pred_tranf"},
                 {"eopp", "test_sds_pred"},
                 <<Call("eopp", "predict", <<"test_sds_pred">>)>>),
          Assign({"test_scores"}, {"test_sds_pred_tranf"}, <<>>)>>),
    Cell(222, 233, {},
        <<Assign({"mask"}, {"test"}, <<>>),
          Assign({"white_fnr"},
                 {"false_negative_rate", "mask", "test", "test_scores"},
                 <<Call("", "false_negative_rate", <<>>)>>),
          Assign({"black_fnr"},
                 {"false_negative_rate", "mask", "test", "test_scores"},
                 <<Call("", "false_negative_rate", <<>>)>>),
          Assign({"fnr_diff"}, {"black_fnr", "np", "white_fnr"}, <<>>),
          Assign({"white_fpr"},
                 {"false_positive_rate", "mask", "test", "test_scores"},
                 <<Call("", "false_positive_rate", <<>>)>>),
          Assign({"black_fpr"},
                 {"false_positive_rate", "mask", "test", "test_scores"},
                 <<Call("", "false_positive_rate", <<>>)>>),
          Assign({"fpr_diff"}, {"black_fpr", "np", "white_fpr"}, <<>>),
          Expr({"fpr_diff", "print"}, <<>>),
          Expr({"fnr_diff", "print"}, <<>>)>>),
    Cell(242, 262, {},
        <<Assign({"acc"}, {"accuracy", "test", "test_scores"}, <<Call("", "accuracy", <<>>)>>),
          Assign({"black_acc"},
                 {"accuracy", "test", "test_scores"},
                 <<Call("", "accuracy", <<>>)>>),
          Assign({"white_acc"},
                 {"accuracy", "test", "test_scores"},
                 <<Call("", "accuracy", <<>>)>>),
          Expr({"acc", "print"}, <<>>),
          Expr({"black_acc", "print"}, <<>>),
          Expr({"print", "white_acc"}, <<>>),
          Expr({"print", "white_fnr"}, <<>>),
          Expr({"black_fnr", "print"}, <<>>),
          Expr({"print", "white_fpr"}, <<>>),
          Expr({"black_fpr", "print"}, <<>>)>>),
    Cell(271, 277, {},
        <<Assign({"eod"},
                 {"equalized_odds_difference", "test", "test_scores"},
                 <<Call("", "equalized_odds_difference", <<>>)>>),
          Expr({"eod", "print"}, <<>>)>>),
    Cell(293, 302, {},
        <<Assign({"eo_bar"},
                 {"group_bar_plots", "test", "test_scores"},
                 <<Call("", "group_bar_plots", <<"test_scores">>)>>),
          Expr({"eo_bar"}, <<>>)>>)
    >>

\* the code cells of preprocessing.ipynb, lines 18-374
PreprocessingNotebook ==
    <<
    Cell(18, 23, {},
        <<Import("Path", <<"pathlib", "Path">>),
          Import("np", <<"numpy">>),
          Import("pd", <<"pandas">>),
          Import("train_test_split", <<"sklearn", "model_selection", "train_test_split">>),
          Import("StandardScaler", <<"sklearn", "preprocessing", "StandardScaler">>)>>),
    Cell(39, 55, {},
        <<Assign({"names"}, {}, <<>>)>>),
    Cell(71, 87, {},
        <<Def("clean_string", {}),
          Def("parse_native_country", {"clean_string"})>>),
    Cell(103, 129, {},
        <<Assign({"train"},
                 {"clean_string", "names", "np", "parse_native_country", "pd"},
                 <<CallAt("pd", "read_csv", Lit(<<"https://archive.ics.uci.edu/ml/machine-learning-databases/adult/adult.data">>))>>)>>),
    Cell(145, 173, {},
        <<Assign({"test"},
                 {"clean_string", "names", "np", "parse_native_country", "pd"},
                 <<CallAt("pd", "read_csv", Lit(<<"https://archive.ics.uci.edu/ml/machine-learning-databases/adult/adult.test">>))>>)>>),
    Cell(189, 192, {},
        <<Check({"set", "test", "train"}),
          Check({"set", "test", "train"}),
          Check({"set", "test", "train"}),
          Check({"set", "test", "train"})>>),
    Cell(201, 213, {},
        <<Assign({"one_hot_features"}, {}, <<>>),
          Assign({"cts_features"}, {}, <<>>),
          Assign({"binary_features"}, {}, <<>>)>>),
    Cell(229, 229, {},
        <<Expr({"train"}, <<>>)>>),
    Cell(238, 246, {},
        <<Assign({"train_df"},
                 {"np", "one_hot_features", "pd", "train"},
                 <<Call("pd", "get_dummies", <<>>),
                 Call("pd", "concat", <<>>)>>),
          Assign({"test_df"},
                 {"np", "one_hot_features", "pd", "test"},
                 <<Call("pd", "get_dummies", <<>>),
                 Call("pd", "concat", <<>>)>>)>>),
    Cell(262, 262, {},
        <<Check({"test_df", "train_df"})>>),
    Cell(278, 278, {},
        <<Assign({"train_df", "val_df"},
                 {"train_df", "train_test_split"},
                 <<Call("", "train_test_split", <<"train_df">>)>>)>>),
    Cell(294, 294, {},
        <<Assign({"artifacts_dir"},
                 {"Path"},
                 <<CallAt("", "Path", Lit(<<"..", "..", "artifacts">>))>>)>>),
    Cell(307, 309, {"export"},
        <<Assign({"artifacts_dir"},
                 {"Path"},
                 <<CallAt("", "Path", Lit(<<"..", "..", "..", "artifacts">>))>>)>>),
    Cell(318, 318, {},
        <<PathAssign("data_dir", "artifacts_dir", <<"data", "adult">>)>>),
    Cell(327, 337, {},
        <<Assign({"original_features"},
                 {"binary_features", "cts_features", "one_hot_features"},
                 <<>>),
          Expr({"data_dir", "original_features", "train_df"},
               <<CallAt("train_df", "to_csv", At("data_dir", <<"processed", "train.csv">>))>>),
          Expr({"data_dir", "original_features", "val_df"},
               <<CallAt("val_df", "to_csv", At("data_dir", <<"processed", "val.csv">>))>>),
          Expr({"data_dir", "original_features", "test_df"},
               <<CallAt("test_df", "to_csv", At("data_dir", <<"processed", "test.csv">>))>>)>>),
    Cell(353, 357, {},
        <<Assign({"ss"}, {"StandardScaler"}, <<Call("", "StandardScaler", <<>>)>>),
          Store({"train_df"},
                {"cts_features", "ss", "train_df"},
                <<Call("ss", "fit_transform", <<>>)>>),
          Store({"val_df"}, {"cts_features", "ss", "val_df"}, <<Call("ss", "transform", <<>>)>>),
          Store({"test_df"},
                {"cts_features", "ss", "test_df"},
                <<Call("ss", "transform", <<>>)>>)>>),
    Cell(366, 374, {},
        <<Expr({"data_dir", "one_hot_features", "train_df"},
               <<CallAt("train_df", "to_csv", At("data_dir", <<"processed", "train-one-hot.csv">>))>>),
          Expr({"data_dir", "one_hot_features", "val_df"},
               <<CallAt("val_df", "to_csv", At("data_dir", <<"processed", "val-one-hot.csv">>))>>),
          Expr({"data_dir", "one_hot_features", "test_df"},
               <<CallAt("test_df", "to_csv", At("data_dir", <<"processed", "test-one-hot.csv">>))>>)>>)
    >>

\* the code cells of preprocessing.ipynb, lines 425-705
ZemelNotebook ==
    <<
    Cell(425, 437, {},
        <<Import("Path", <<"pathlib", "Path">>),
          Import("joblib", <<"joblib">>),
          Import("np", <<"numpy">>),
          Import("pd", <<"pandas">>),
          Import("LFR", <<"aif360", "algorithms", "preprocessing", "lfr", "LFR">>),
          Import("StandardDataset", <<"aif360", "datasets", "StandardDataset">>),
          Import("demographic_parity_difference",
                 <<"fairlearn", "metrics", "demographic_parity_difference">>),
          Import("demographic_parity_ratio",
                 <<"fairlearn", "metrics", "demographic_parity_ratio">>),
          Import("accuracy", <<"helpers", "metrics", "accuracy">>),
          Import("group_bar_plots", <<"helpers", "plot", "group_bar_plots">>)>>),
    Cell(450, 450, {"export"},
        <<Import("export_plot", <<"helpers", "export_plot">>)>>),
    Cell(468, 468, {},
        <<Assign({"artifacts_dir"},
                 {"Path"},
                 <<CallAt("", "Path", Lit(<<"..", "..", "..", "artifacts">>))>>)>>),
    Cell(481, 483, {"export"},
        <<Assign({"artifacts_dir"},
                 {"Path"},
                 <<CallAt("", "Path", Lit(<<"..", "..", "..", "..", "artifacts">>))>>)>>),
    Cell(492, 496, {},
        <<PathAssign("data_dir", "artifacts_dir", <<"data", "adult">>),
          Assign({"train"},
                 {"data_dir", "pd"},
                 <<CallAt("pd", "read_csv", At("data_dir", <<"processed", "train-one-hot.csv">>))>>),
          Assign({"val"},
                 {"data_dir", "pd"},
                 <<CallAt("pd", "read_csv", At("data_dir", <<"processed", "val-one-hot.csv">>))>>),
          Assign({"test"},
                 {"data_dir", "pd"},
                 <<CallAt("pd", "read_csv", At("data_dir", <<"processed", "test-one-hot.csv">>))>>)>>),
    Cell(512, 533, {},
        <<Assign({"train_sds"},
                 {"StandardDataset", "train"},
                 <<Call("", "StandardDataset", <<"train">>)>>),
          Assign({"test_sds"},
                 {"StandardDataset", "test"},
                 <<Call("", "StandardDataset", <<"test">>)>>),
          Assign({"val_sds"},
                 {"StandardDataset", "val"},
                 <<Call("", "StandardDataset", <<"val">>)>>),
          Assign({"index"}, {"train_sds"}, <<>>)>>),
    Cell(542, 543, {},
        <<Assign({"privileged_groups"}, {}, <<>>),
          Assign({"unprivileged_groups"}, {}, <<>>)>>),
    Cell(569, 572, {},
        <<Assign({"bl_model"},
                 {"artifacts_dir", "joblib"},
                 <<CallAt("joblib", "load", At("artifacts_dir", <<"models", "finance", "baseline.pkl">>))>>),
          Assign({"bl_test_probs"},
                 {"bl_model", "test_sds"},
                 <<Call("bl_model", "predict_proba", <<>>)>>),
          Assign({"bl_test_pred"}, {"bl_test_probs"}, <<>>)>>),
    Cell(592, 592, {},
        <<Assign({"TR"},
                 {"artifacts_dir", "joblib"},
                 <<CallAt("joblib", "load", At("artifacts_dir", <<"models", "finance", "zemel-sex.pkl">>))>>)>>),
    Cell(608, 616, {}, <<>>),
    Cell(632, 633, {},
        <<Assign({"transf_test_sds"},
                 {"TR", "test_sds"},
                 <<Call("TR", "transform", <<"test_sds">>)>>),
          Assign({"test_fair_labels"}, {"transf_test_sds"}, <<>>)>>),
    Cell(649, 672, {},
        <<Assign({"bl_acc"}, {"bl_model", "test"}, <<Call("bl_model", "score", <<>>)>>),
          Assign({"bl_dpd"},
                 {"bl_test_pred", "demographic_parity_difference", "test"},
                 <<Call("", "demographic_parity_difference", <<"bl_test_pred">>)>>),
          Assign({"bl_dpr"},
                 {"bl_test_pred", "demographic_parity_ratio", "test"},
                 <<Call("", "demographic_parity_ratio", <<"bl_test_pred">>)>>),
          Assign({"acc"},
                 {"accuracy", "test", "test_fair_labels"},
                 <<Call("", "accuracy", <<"test_fair_labels">>)>>),
          Assign({"dpd"},
                 {"demographic_parity_difference", "test", "test_fair_labels"},
                 <<Call("", "demographic_parity_difference", <<"test_fair_labels">>)>>),
          Assign({"dpr"},
                 {"demographic_parity_ratio", "test", "test_fair_labels"},
                 <<Call("", "demographic_parity_ratio", <<"test_fair_labels">>)>>),
          Expr({"bl_acc", "print"}, <<>>),
          Expr({"acc", "print"}, <<>>),
          Expr({"bl_dpd", "print"}, <<>>),
          Expr({"dpd", "print"}, <<>>),
          Expr({"bl_dpr", "print"}, <<>>),
          Expr({"dpr", "print"}, <<>>)>>),
    Cell(681, 692, {},
        <<Assign({"dp_bar"},
                 {"bl_test_pred", "group_bar_plots", "np", "test", "test_fair_labels"},
                 <<Call("", "group_bar_plots", <<>>)>>),
          Expr({"dp_bar"}, <<>>)>>),
    Cell(705, 705, {"export"},
        <<Expr({"dp_bar", "export_plot"}, <<Call("", "export_plot", <<"dp_bar">>)>>)>>)
    >>

\* the code cells of pleiss.ipynb, lines 22-523
PleissNotebook ==
    <<
    Cell(22, 33, {},
        <<Import("Path", <<"pathlib", "Path">>),
          Import("joblib", <<"joblib">>),
          Import("np", <<"numpy">>),
          Import("pd", <<"pandas">>),
          Import("StandardDataset", <<"aif360", "datasets", "StandardDataset">>),
          Import("CalibratedEqOddsPostprocessing",
                 <<"aif360", "algorithms", "postprocessing", "calibrated_eq_odds_postprocessing", "CalibratedEqOddsPostprocessing">>),
          Import("equalized_odds_difference",
                 <<"fairlearn", "metrics", "equalized_odds_difference">>),
          Import("accuracy", <<"helpers", "metrics", "accuracy">>),
          Import("calibration_difference", <<"helpers", "metrics", "calibration_difference">>),
          Import("calibration_curves", <<"helpers", "plot", "calibration_curves">>),
          Import("group_bar_plots", <<"helpers", "plot", "group_bar_plots">>)>>),
    Cell(46, 46, {"export"},
        <<Import("export_plot", <<"helpers", "export_plot">>)>>),
    Cell(64, 64, {},
        <<Assign({"artifacts_dir"},
                 {"Path"},
                 <<CallAt("", "Path", Lit(<<"..", "..", "..", "artifacts">>))>>)>>),
    Cell(77, 79, {"export"},
        <<Assign({"artifacts_dir"},
                 {"Path"},
                 <<CallAt("", "Path", Lit(<<"..", "..", "..", "..", "artifacts">>))>>)>>),
    Cell(88, 92, {},
        <<PathAssign("data_dir", "artifacts_dir", <<"data", "recruiting">>),
          Assign({"train"},
                 {"data_dir", "pd"},
                 <<CallAt("pd", "read_csv", At("data_dir", <<"processed", "train.csv">>))>>),
          Assign({"val"},
                 {"data_dir", "pd"},
                 <<CallAt("pd", "read_csv", At("data_dir", <<"processed", "val.csv">>))>>),
          Assign({"test"},
                 {"data_dir", "pd"},
                 <<CallAt("pd", "read_csv", At("data_dir", <<"processed", "test.csv">>))>>)>>),
    Cell(108, 129, {},
        <<Assign({"train_sds"},
                 {"StandardDataset", "train"},
                 <<Call("", "StandardDataset", <<"train">>)>>),
          Assign({"test_sds"},
                 {"StandardDataset", "test"},
                 <<Call("", "StandardDataset", <<"test">>)>>),
          Assign({"val_sds"},
                 {"StandardDataset", "val"},
                 <<Call("", "StandardDataset", <<"val">>)>>),
          Assign({"index"}, {"train_sds"}, <<>>)>>),
    Cell(145, 146, {},
        <<Assign({"privileged_groups"}, {}, <<>>),
          Assign({"unprivileged_groups"}, {}, <<>>)>>),
    Cell(164, 166, {},
        <<Assign({"bl_model"},
                 {"artifacts_dir", "joblib"},
                 <<CallAt("joblib", "load", At("artifacts_dir", <<"models", "recruiting", "baseline.pkl">>))>>)>>),
    Cell(182, 190, {},
        <<Assign({"bl_test_probs"},
                 {"bl_model", "test"},
                 <<Call("bl_model", "predict_proba", <<>>)>>),
          Assign({"test_sds_pred"}, {"test_sds"}, <<Call("test_sds", "copy", <<>>)>>),
          Store({"test_sds_pred"}, {"bl_test_probs", "test_sds_pred"}, <<>>),
          Assign({"bl_test_pred"}, {"bl_test_probs"}, <<>>),
          Assign({"bl_val_probs"},
                 {"bl_model", "val"},
                 <<Call("bl_model", "predict_proba", <<>>)>>),
          Assign({"val_sds_pred"}, {"val_sds"}, <<Call("val_sds", "copy", <<>>)>>),
          Store({"val_sds_pred"}, {"bl_val_probs", "val_sds_pred"}, <<>>),
          Assign({"bl_val_pred"}, {"bl_val_probs"}, <<>>)>>),
    Cell(208, 208, {},
        <<Assign({"cost_constraint"}, {}, <<>>)>>),
    Cell(217, 224, {},
        <<Assign({"cpp"},
                 {"CalibratedEqOddsPostprocessing", "cost_constraint", "np", "privileged_groups", "unprivileged_groups"},
                 <<Call("", "CalibratedEqOddsPostprocessing", <<"privileged_groups", "unprivileged_groups", "cost_constraint">>)>>),
          Assign({"cpp"},
                 {"cpp", "val_sds", "val_sds_pred"},
                 <<Call("cpp", "fit", <<"val_sds", "val_sds_pred">>)>>)>>),
    Cell(240, 242, {},
        <<Assign({"test_sds_pred_tranf"},
                 {"cpp", "test_sds_pred"},
                 <<Call("cpp", "predict", <<"test_sds_pred">>)>>),
          Assign({"test_probs"}, {"test_sds_pred_tranf"}, <<>>),
          Assign({"test_pred"}, {"test_probs"}, <<>>)>>),
    Cell(258, 286, {},
        <<Assign({"mask"}, {"test"}, <<>>),
          Assign({"bl_acc"},
                 {"accuracy", "bl_test_pred", "test"},
                 <<Call("", "accuracy", <<"bl_test_pred">>)>>),
          Assign({"acc"},
                 {"accuracy", "test", "test_pred"},
                 <<Call("", "accuracy", <<"test_pred">>)>>),
          Assign({"bl_eo"},
                 {"bl_test_pred", "equalized_odds_difference", "mask", "test"},
                 <<Call("", "equalized_odds_difference", <<>>)>>),
          Assign({"eo"},
                 {"equalized_odds_difference", "mask", "test", "test_pred"},
                 <<Call("", "equalized_odds_difference", <<>>)>>),
          Assign({"bl_calib"},
                 {"bl_test_probs", "calibration_difference", "test"},
                 <<Call("", "calibration_difference", <<"bl_test_probs">>)>>),
          Assign({"calib"},
                 {"calibration_difference", "test", "test_probs"},
                 <<Call("", "calibration_difference", <<"test_probs">>)>>),
          Expr({"bl_acc", "print"}, <<>>),
          Expr({"acc", "print"}, <<>>),
          Expr({"bl_eo", "print"}, <<>>),
          Expr({"eo", "print"}, <<>>),
          Expr({"bl_calib", "print"}, <<>>),
          Expr({"calib", "print"}, <<>>)>>),
    Cell(295, 302, {},
        <<Expr({"bl_test_probs", "calibration_curves", "test"},
               <<Call("", "calibration_curves", <<"bl_test_probs">>)>>)>>),
    Cell(318, 325, {},
        <<Expr({"calibration_curves", "test", "test_probs"},
               <<Call("", "calibration_curves", <<"test_probs">>)>>)>>),
    Cell(334, 347, {},
        <<Assign({"mask"}, {"test"}, <<>>),
          Assign({"eopp_bar"},
                 {"bl_test_pred", "bl_test_probs", "group_bar_plots", "mask", "np", "test", "test_pred", "test_probs"},
                 <<Call("", "group_bar_plots", <<>>)>>),
          Expr({"eopp_bar"}, <<>>)>>),
    Cell(360, 360, {"export"},
        <<Expr({"eopp_bar", "export_plot"}, <<Call("", "export_plot", <<"eopp_bar">>)>>)>>),
    Cell(378, 378, {},
        <<Assign({"cost_constraint"}, {}, <<>>)>>),
    Cell(394, 401, {},
        <<Assign({"cpp"},
                 {"CalibratedEqOddsPostprocessing", "cost_constraint", "np", "privileged_groups", "unprivileged_groups"},
                 <<Call("", "CalibratedEqOddsPostprocessing", <<"privileged_groups", "unprivileged_groups", "cost_constraint">>)>>),
          Assign({"cpp"},
                 {"cpp", "test_sds", "test_sds_pred"},
                 <<Call("cpp", "fit", <<"test_sds", "test_sds_pred">>)>>)>>),
    Cell(417, 419, {},
        <<Assign({"test_sds_pred_tranf"},
                 {"cpp", "test_sds_pred"},
                 <<Call("cpp", "predict", <<"test_sds_pred">>)>>),
          Assign({"test_probs"}, {"test_sds_pred_tranf"}, <<>>),
          Assign({"test_pred"}, {"test_probs"}, <<>>)>>),
    Cell(435, 457, {},
        <<Assign({"bl_acc"},
                 {"accuracy", "bl_test_pred", "test"},
                 <<Call("", "accuracy", <<"bl_test_pred">>)>>),
          Assign({"acc"},
                 {"accuracy", "test", "test_pred"},
                 <<Call("", "accuracy", <<"test_pred">>)>>),
          Assign({"bl_eo"},
                 {"bl_test_pred", "equalized_odds_difference", "test"},
                 <<Call("", "equalized_odds_difference", <<"bl_test_pred">>)>>),
          Assign({"eo"},
                 {"equalized_odds_difference", "test", "test_pred"},
                 <<Call("", "equalized_odds_difference", <<"test_pred">>)>>),
          Assign({"bl_calib"},
                 {"bl_test_probs", "calibration_difference", "test"},
                 <<Call("", "calibration_difference", <<"bl_test_probs">>)>>),
          Assign({"calib"},
                 {"calibration_difference", "test", "test_probs"},
                 <<Call("", "calibration_difference", <<"test_probs">>)>>),
          Expr({"bl_acc", "print"}, <<>>),
          Expr({"acc", "print"}, <<>>),
          Expr({"bl_eo", "print"}, <<>>),
          Expr({"eo", "print"}, <<>>),
          Expr({"bl_calib", "print"}, <<>>),
          Expr({"calib", "print"}, <<>>)>>),
    Cell(466, 473, {},
        <<Expr({"calibration_curves", "test", "test_probs"},
               <<Call("", "calibration_curves", <<"test_probs">>)>>)>>),
    Cell(482, 491, {},
        <<Assign({"bl_eo_bar"},
                 {"bl_test_pred", "group_bar_plots", "test"},
                 <<Call("", "group_bar_plots", <<"bl_test_pred">>)>>),
          Expr({"bl_eo_bar"}, <<>>)>>),
    Cell(500, 509, {},
        <<Assign({"eo_bar"},
                 {"group_bar_plots", "test", "test_pred"},
                 <<Call("", "group_bar_plots", <<"test_pred">>)>>),
          Expr({"eo_bar"}, <<>>)>>),
    Cell(522, 523, {"export"},
        <<Expr({"bl_eo_bar", "export_plot"}, <<Call("", "export_plot", <<"bl_eo_bar">>)>>),
          Expr({"eo_bar", "export_plot"}, <<Call("", "export_plot", <<"eo_bar">>)>>)>>)
    >>

\* the code cells of kamiran.ipynb, lines 22-634
KamiranNotebook ==
    <<
    Cell(22, 35, {},
        <<Import("Path", <<"pathlib", "Path">>),
          Import("joblib", <<"joblib">>),
          Import("pd", <<"pandas">>),
          Import("RejectOptionClassification",
                 <<"aif360", "algorithms", "postprocessing", "reject_option_classification", "RejectOptionClassification">>),
          Import("StandardDataset", <<"aif360", "datasets", "StandardDataset">>),
          Import("demographic_parity_difference",
                 <<"fairlearn", "metrics", "demographic_parity_difference">>),
          Import("equalized_odds_difference",
                 <<"fairlearn", "metrics", "equalized_odds_difference">>),
          Import("accuracy", <<"helpers", "metrics", "accuracy">>),
          Import("group_bar_plots", <<"helpers", "plot", "group_bar_plots">>)>>),
    Cell(48, 48, {"export"},
        <<Import("export_plot", <<"helpers", "export_plot">>)>>),
    Cell(66, 66, {},
        <<Assign({"artifacts_dir"},
                 {"Path"},
                 <<CallAt("", "Path", Lit(<<"..", "..", "..", "artifacts">>))>>)>>),
    Cell(79, 81, {"export"},
        <<Assign({"artifacts_dir"},
                 {"Path"},
                 <<CallAt("", "Path", Lit(<<"..", "..", "..", "..", "artifacts">>))>>)>>),
    Cell(90, 94, {},
        <<PathAssign("data_dir", "artifacts_dir", <<"data", "recruiting">>),
          Assign({"train"},
                 {"data_dir", "pd"},
                 <<CallAt("pd", "read_csv", At("data_dir", <<"processed", "train.csv">>))>>),
          Assign({"val"},
                 {"data_dir", "pd"},
                 <<CallAt("pd", "read_csv", At("data_dir", <<"processed", "val.csv">>))>>),
          Assign({"test"},
                 {"data_dir", "pd"},
                 <<CallAt("pd", "read_csv", At("data_dir", <<"processed", "test.csv">>))>>)>>),
    Cell(110, 131, {},
        <<Assign({"train_sds"},
                 {"StandardDataset", "train"},
                 <<Call("", "StandardDataset", <<"train">>)>>),
          Assign({"test_sds"},
                 {"StandardDataset", "test"},
                 <<Call("", "StandardDataset", <<"test">>)>>),
          Assign({"val_sds"},
                 {"StandardDataset", "val"},
                 <<Call("", "StandardDataset", <<"val">>)>>),
          Assign({"index"}, {"train_sds"}, <<>>)>>),
    Cell(147, 148, {},
        <<Assign({"privileged_groups"}, {}, <<>>),
          Assign({"unprivileged_groups"}, {}, <<>>)>>),
    Cell(166, 168, {},
        <<Assign({"baseline_model"},
                 {"artifacts_dir", "joblib"},
                 <<CallAt("joblib", "load", At("artifacts_dir", <<"models", "recruiting", "baseline.pkl">>))>>)>>),
    Cell(184, 195, {},
        <<Assign({"bl_val_probs"},
                 {"baseline_model", "val"},
                 <<Call("baseline_model", "predict_proba", <<>>)>>),
          Assign({"val_sds_pred"}, {"val_sds"}, <<Call("val_sds", "copy", <<>>)>>),
          Store({"val_sds_pred"}, {"bl_val_probs", "val_sds_pred"}, <<>>),
          Assign({"bl_test_probs"},
                 {"baseline_model", "test"},
                 <<Call("baseline_model", "predict_proba", <<>>)>>),
          Assign({"bl_test_pred"}, {"bl_test_probs"}, <<>>),
          Assign({"test_sds_pred"}, {"test_sds"}, <<Call("test_sds", "copy", <<>>)>>),
          Store({"test_sds_pred"}, {"bl_test_probs", "test_sds_pred"}, <<>>)>>),
    Cell(213, 218, {},
        <<Assign({"metric_name"}, {}, <<>>),
          Assign({"metric_ub"}, {}, <<>>),
          Assign({"metric_lb"}, {}, <<>>)>>),
    Cell(234, 245, {},
        <<Assign({"ROC"},
                 {"RejectOptionClassification", "metric_lb", "metric_name", "metric_ub", "privileged_groups", "unprivileged_groups"},
                 <<Call("", "RejectOptionClassification", <<"unprivileged_groups", "privileged_groups", "metric_name", "metric_ub", "metric_lb">>)>>),
          Assign({"ROC"},
                 {"ROC", "val_sds", "val_sds_pred"},
                 <<Call("ROC", "fit", <<"val_sds", "val_sds_pred">>)>>)>>),
    Cell(261, 263, {},
        <<Assign({"test_sds_pred_transf"},
                 {"ROC", "test_sds_pred"},
                 <<Call("ROC", "predict", <<"test_sds_pred">>),
                 Call("<result>", "copy", <<>>)>>),
          Assign({"test_pred_labels"}, {"test_sds_pred_transf"}, <<>>)>>),
    Cell(279, 300, {},
        <<Assign({"test_features"}, {"test"}, <<>>),
          Assign({"test_race"}, {"test"}, <<>>),
          Assign({"test_employed"}, {"test"}, <<>>),
          Assign({"mask"}, {"test_race"}, <<>>),
          Assign({"bl_test_acc"},
                 {"accuracy", "bl_test_probs", "test_employed"},
                 <<Call("", "accuracy", <<"test_employed", "bl_test_probs">>)>>),
          Assign({"bl_test_dpd"},
                 {"bl_test_pred", "demographic_parity_difference", "test", "test_race"},
                 <<Call("", "demographic_parity_difference", <<"bl_test_pred", "test_race">>)>>),
          Assign({"test_acc"},
                 {"accuracy", "test_employed", "test_pred_labels"},
                 <<Call("", "accuracy", <<"test_employed", "test_pred_labels">>)>>),
          Assign({"test_dpd"},
                 {"demographic_parity_difference", "test", "test_pred_labels", "test_race"},
                 <<Call("", "demographic_parity_difference", <<"test_pred_labels", "test_race">>)>>),
          Expr({"bl_test_acc", "print"}, <<>>),
          Expr({"print", "test_acc"}, <<>>),
          Expr({"bl_test_dpd", "print"}, <<>>),
          Expr({"print", "test_dpd"}, <<>>)>>),
    Cell(316, 331, {},
        <<Assign({"white_acc"},
                 {"accuracy", "test", "test_pred_labels"},
                 <<Call("", "accuracy", <<>>)>>),
          Assign({"black_acc"},
                 {"accuracy", "test", "test_pred_labels"},
                 <<Call("", "accuracy", <<>>)>>),
          Assign({"mean_black_score"}, {"test", "test_pred_labels"}, <<>>),
          Assign({"mean_white_score"}, {"test", "test_pred_labels"}, <<>>),
          Expr({"black_acc", "print"}, <<>>),
          Expr({"print", "white_acc"}, <<>>),
          Expr({"mean_black_score", "print"}, <<>>),
          Expr({"mean_white_score", "print"}, <<>>)>>),
    Cell(340, 346, {},
        <<Assign({"dp_bar"},
                 {"group_bar_plots", "test", "test_pred_labels"},
                 <<Call("", "group_bar_plots", <<"test_pred_labels">>)>>),
          Expr({"dp_bar"}, <<>>)>>),
    Cell(359, 359, {"export"},
        <<Expr({"dp_bar", "export_plot"}, <<Call("", "export_plot", <<"dp_bar">>)>>)>>),
    Cell(377, 382, {},
        <<Assign({"metric_name"}, {}, <<>>),
          Assign({"metric_ub"}, {}, <<>>),
          Assign({"metric_lb"}, {}, <<>>)>>),
    Cell(398, 409, {},
        <<Assign({"ROC"},
                 {"RejectOptionClassification", "metric_lb", "metric_name", "metric_ub", "privileged_groups", "unprivileged_groups"},
                 <<Call("", "RejectOptionClassification", <<"unprivileged_groups", "privileged_groups", "metric_name", "metric_ub", "metric_lb">>)>>),
          Assign({"ROC"},
                 {"ROC", "val_sds", "val_sds_pred"},
                 <<Call("ROC", "fit", <<"val_sds", "val_sds_pred">>)>>)>>),
    Cell(425, 427, {},
        <<Assign({"test_sds_pred_transf"},
                 {"ROC", "test_sds_pred"},
                 <<Call("ROC", "predict", <<"test_sds_pred">>),
                 Call("<result>", "copy", <<>>)>>),
          Assign({"test_pred_labels"}, {"test_sds_pred_transf"}, <<>>)>>),
    Cell(443, 464, {},
        <<Assign({"test_features"}, {"test"}, <<>>),
          Assign({"test_race"}, {"test"}, <<>>),
          Assign({"test_employed"}, {"test"}, <<>>),
          Assign({"mask"}, {"test_race"}, <<>>),
          Assign({"bl_test_acc"},
                 {"accuracy", "bl_test_probs", "test_employed"},
                 <<Call("", "accuracy", <<"test_employed", "bl_test_probs">>)>>),
          Assign({"bl_test_eod"},
                 {"bl_test_pred", "equalized_odds_difference", "test_employed", "test_race"},
                 <<Call("", "equalized_odds_difference", <<"test_employed", "bl_test_pred", "test_race">>)>>),
          Assign({"test_acc"},
                 {"accuracy", "test_employed", "test_pred_labels"},
                 <<Call("", "accuracy", <<"test_employed", "test_pred_labels">>)>>),
          Assign({"test_eod"},
                 {"equalized_odds_difference", "test_employed", "test_pred_labels", "test_race"},
                 <<Call("", "equalized_odds_difference", <<"test_employed", "test_pred_labels", "test_race">>)>>),
          Expr({"bl_test_acc", "print"}, <<>>),
          Expr({"print", "test_acc"}, <<>>),
          Expr({"bl_test_eod", "print"}, <<>>),
          Expr({"print", "test_eod"}, <<>>)>>),
    Cell(473, 482, {},
        <<Assign({"eo_bar"},
                 {"group_bar_plots", "test", "test_pred_labels"},
                 <<Call("", "group_bar_plots", <<"test_pred_labels">>)>>),
          Expr({"eo_bar"}, <<>>)>>),
    Cell(495, 495, {"export"},
        <<Expr({"eo_bar", "export_plot"}, <<Call("", "export_plot", <<"eo_bar">>)>>)>>),
    Cell(513, 518, {},
        <<Assign({"metric_name"}, {}, <<>>),
          Assign({"metric_ub"}, {}, <<>>),
          Assign({"metric_lb"}, {}, <<>>)>>),
    Cell(534, 545, {},
        <<Assign({"ROC"},
                 {"RejectOptionClassification", "metric_lb", "metric_name", "metric_ub", "privileged_groups", "unprivileged_groups"},
                 <<Call("", "RejectOptionClassification", <<"unprivileged_groups", "privileged_groups", "metric_name", "metric_ub", "metric_lb">>)>>),
          Assign({"ROC"},
                 {"ROC", "val_sds", "val_sds_pred"},
                 <<Call("ROC", "fit", <<"val_sds", "val_sds_pred">>)>>)>>),
    Cell(561, 563, {},
        <<Assign({"test_sds_pred_transf"},
                 {"ROC", "test_sds_pred"},
                 <<Call("ROC", "predict", <<"test_sds_pred">>),
                 Call("<result>", "copy", <<>>)>>),
          Assign({"test_pred_labels"}, {"test_sds_pred_transf"}, <<>>)>>),
    Cell(579, 604, {},
        <<Assign({"test_features"}, {"test"}, <<>>),
          Assign({"test_race"}, {"test"}, <<>>),
          Assign({"test_employed"}, {"test"}, <<>>),
          Assign({"mask"}, {"test_race"}, <<>>),
          Assign({"bl_test_acc"},
                 {"accuracy", "bl_test_probs", "test_employed"},
                 <<Call("", "accuracy", <<"test_employed", "bl_test_probs">>)>>),
          Assign({"bl_test_eoppd"},
                 {"bl_test_pred", "equalized_odds_difference", "test", "test_employed", "test_race"},
                 <<Call("", "equalized_odds_difference", <<>>)>>),
          Assign({"test_acc"},
                 {"accuracy", "test_employed", "test_pred_labels"},
                 <<Call("", "accuracy", <<"test_employed", "test_pred_labels">>)>>),
          Assign({"test_eoppd"},
                 {"equalized_odds_difference", "test", "test_employed", "test_pred_labels", "test_race"},
                 <<Call("", "equalized_odds_difference", <<>>)>>),
          Expr({"bl_test_acc", "print"}, <<>>),
          Expr({"print", "test_acc"}, <<>>),
          Expr({"bl_test_eoppd", "print"}, <<>>),
          Expr({"print", "test_eoppd"}, <<>>)>>),
    Cell(615, 621, {},
        <<Assign({"eopp_bar"},
                 {"group_bar_plots", "test", "test_pred_labels"},
                 <<Call("", "group_bar_plots", <<>>)>>),
          Expr({"eopp_bar"}, <<>>)>>),
    Cell(634, 634, {"export"},
        <<Expr({"eopp_bar", "export_plot"}, <<Call("", "export_plot", <<"eopp_bar">>)>>)>>)
    >>

\* the code cells of feldman.ipynb, lines 20-264
FeldmanNotebook ==
    <<
    Cell(20, 33, {},
        <<Import("Path", <<"pathlib", "Path">>),
          Import("joblib", <<"joblib">>),
          Import("np", <<"numpy">>),
          Import("pd", <<"pandas">>),
          Import("StandardDataset", <<"aif360", "datasets", "StandardDataset">>),
          Import("DisparateImpactRemover",
                 <<"aif360", "algorithms", "preprocessing", "DisparateImpactRemover">>),
          Import("accuracy", <<"helpers", "fairness_measures", "accuracy">>),
          Import("disparate_impact_d", <<"helpers", "fairness_measures", "disparate_impact_d">>),
          Import("disparate_impact_p", <<"helpers", "fairness_measures", "disparate_impact_p">>),
          Import("group_box_plots", <<"helpers", "plot", "group_box_plots">>),
          Import("MLPClassifier", <<"sklearn", "neural_network", "MLPClassifier">>)>>),
    Cell(51, 51, {},
        <<Assign({"artifacts_dir"},
                 {"Path"},
                 <<CallAt("", "Path", Lit(<<"..", "..", "..", "artifacts">>))>>)>>),
    Cell(60, 64, {},
        <<PathAssign("data_dir", "artifacts_dir", <<"data", "recruiting">>),
          Assign({"train"},
                 {"data_dir", "pd"},
                 <<CallAt("pd", "read_csv", At("data_dir", <<"processed", "train.csv">>))>>),
          Assign({"val"},
                 {"data_dir", "pd"},
                 <<CallAt("pd", "read_csv", At("data_dir", <<"processed", "val.csv">>))>>),
          Assign({"test"},
                 {"data_dir", "pd"},
                 <<CallAt("pd", "read_csv", At("data_dir", <<"processed", "test.csv">>))>>)>>),
    Cell(80, 101, {},
        <<Assign({"train_sds"},
                 {"StandardDataset", "train"},
                 <<Call("", "StandardDataset", <<"train">>)>>),
          Assign({"test_sds"},
                 {"StandardDataset", "test"},
                 <<Call("", "StandardDataset", <<"test">>)>>),
          Assign({"val_sds"},
                 {"StandardDataset", "val"},
                 <<Call("", "StandardDataset", <<"val">>)>>),
          Assign({"index"}, {"train_sds"}, <<>>)>>),
    Cell(119, 121, {},
        <<Assign({"bl_model"},
                 {"artifacts_dir", "joblib"},
                 <<CallAt("joblib", "load", At("artifacts_dir", <<"models", "recruiting", "baseline.pkl">>))>>)>>),
    Cell(138, 139, {}, <<>>),
    Cell(155, 155, {},
        <<Assign({"bl_test_probs"},
                 {"bl_model", "test_sds"},
                 <<Call("bl_model", "predict_proba", <<>>)>>)>>),
    Cell(173, 181, {},
        <<Assign({"di"},
                 {"DisparateImpactRemover"},
                 <<Call("", "DisparateImpactRemover", <<>>)>>),
          Assign({"train_repd"},
                 {"di", "train_sds"},
                 <<Call("di", "fit_transform", <<"train_sds">>)>>),
          Assign({"train_repd_X"}, {"index", "np", "train_repd"}, <<>>),
          Assign({"train_repd_y"}, {"train_repd"}, <<>>),
          Assign({"test_repd"},
                 {"di", "test_sds"},
                 <<Call("di", "fit_transform", <<"test_sds">>)>>),
          Assign({"test_repd_X"}, {"index", "np", "test_repd"}, <<>>),
          Assign({"test_repd_y"}, {"test_repd"}, <<>>)>>),
    Cell(199, 199, {},
        <<Assign({"model"},
                 {"artifacts_dir", "joblib"},
                 <<CallAt("joblib", "load", At("artifacts_dir", <<"models", "recruiting", "feldman.pkl">>))>>)>>),
    Cell(208, 211, {},
        <<Assign({"test_probs"},
                 {"model", "test_repd_X"},
                 <<Call("model", "predict_proba", <<"test_repd_X">>)>>)>>),
    Cell(227, 242, {},
        <<Assign({"bl_test_acc"},
                 {"accuracy", "bl_test_probs", "test"},
                 <<Call("", "accuracy", <<"bl_test_probs">>)>>),
          Assign({"bl_test_did"},
                 {"bl_test_probs", "disparate_impact_d", "test"},
                 <<Call("", "disparate_impact_d", <<"bl_test_probs">>)>>),
          Assign({"bl_test_dip"},
                 {"bl_test_probs", "disparate_impact_p", "test"},
                 <<Call("", "disparate_impact_p", <<"bl_test_probs">>)>>),
          Assign({"test_acc"},
                 {"accuracy", "test", "test_probs"},
                 <<Call("", "accuracy", <<"test_probs">>)>>),
          Assign({"test_did"},
                 {"disparate_impact_d", "test", "test_probs"},
                 <<Call("", "disparate_impact_d", <<"test_probs">>)>>),
          Assign({"test_dip"},
                 {"disparate_impact_p", "test", "test_probs"},
                 <<Call("", "disparate_impact_p", <<"test_probs">>)>>),
          Expr({"bl_test_acc", "print"}, <<>>),
          Expr({"print", "test_acc"}, <<>>),
          Expr({"bl_test_did", "print"}, <<>>),
          Expr({"print", "test_did"}, <<>>),
          Expr({"bl_test_dip", "print"}, <<>>),
          Expr({"print", "test_dip"}, <<>>)>>),
    Cell(258, 264, {},
        <<Assign({"dp_box"},
                 {"bl_test_probs", "group_box_plots", "np", "test", "test_probs"},
                 <<Call("", "group_box_plots", <<>>)>>),
          Expr({"dp_box"}, <<>>)>>)
    >>

\* the code cells of kamishima.ipynb, lines 20-243
KamishimaNotebook ==
    <<
    Cell(20, 29, {},
        <<Import("Path", <<"pathlib", "Path">>),
          Import("joblib", <<"joblib">>),
          Import("pd", <<"pandas">>),
          Import("np", <<"numpy">>),
          Import("StandardDataset", <<"aif360", "datasets", "StandardDataset">>),
          Import("PrejudiceRemover",
                 <<"aif360", "algorithms", "inprocessing", "PrejudiceRemover">>),
          Import("demographic_parity_difference",
                 <<"fairlearn", "metrics", "demographic_parity_difference">>),
          Import("accuracy", <<"helpers", "metrics", "accuracy">>),
          Import("group_box_plots", <<"helpers", "plot", "group_box_plots">>)>>),
    Cell(47, 47, {},
        <<Assign({"artifacts_dir"},
                 {"Path"},
                 <<CallAt("", "Path", Lit(<<"..", "..", "..", "artifacts">>))>>)>>),
    Cell(56, 60, {},
        <<PathAssign("data_dir", "artifacts_dir", <<"data", "recruiting">>),
          Assign({"train"},
                 {"data_dir", "pd"},
                 <<CallAt("pd", "read_csv", At("data_dir", <<"processed", "train.csv">>))>>),
          Assign({"val"},
                 {"data_dir", "pd"},
                 <<CallAt("pd", "read_csv", At("data_dir", <<"processed", "val.csv">>))>>),
          Assign({"test"},
                 {"data_dir", "pd"},
                 <<CallAt("pd", "read_csv", At("data_dir", <<"processed", "test.csv">>))>>)>>),
    Cell(76, 96, {},
        <<Assign({"train_sds"},
                 {"StandardDataset", "train"},
                 <<Call("", "StandardDataset", <<"train">>)>>),
          Assign({"test_sds"},
                 {"StandardDataset", "test"},
                 <<Call("", "StandardDataset", <<"test">>)>>),
          Assign({"val_sds"},
                 {"StandardDataset", "val"},
                 <<Call("", "StandardDataset", <<"val">>)>>)>>),
    Cell(114, 116, {},
        <<Assign({"bl_model"},
                 {"artifacts_dir", "joblib"},
                 <<CallAt("joblib", "load", At("artifacts_dir", <<"models", "recruiting", "baseline.pkl">>))>>)>>),
    Cell(132, 134, {},
        <<Assign({"bl_test_probs"},
                 {"bl_model", "test"},
                 <<Call("bl_model", "predict_proba", <<>>)>>),
          Assign({"bl_test_pred"}, {"bl_test_probs"}, <<>>),
          Assign({"test_sds_pred"}, {"test_sds"}, <<Call("test_sds", "copy", <<>>)>>)>>),
    Cell(154, 157, {}, <<>>),
    Cell(173, 174, {}, <<>>),
    Cell(183, 186, {},
        <<Assign({"test_probs"},
                 {"artifacts_dir", "np"},
                 <<CallAt("np", "load", At("artifacts_dir", <<"models", "recruiting", "kamishima_test_scores.npy">>))>>),
          Assign({"test_pred"}, {"test_probs"}, <<>>)>>),
    Cell(202, 223, {},
        <<Assign({"test_features"}, {"test"}, <<>>),
          Assign({"test_race_white"}, {"test"}, <<>>),
          Assign({"test_employed_yes"}, {"test"}, <<>>),
          Assign({"mask"}, {"test_race_white"}, <<>>),
          Assign({"bl_test_acc"},
                 {"accuracy", "bl_test_probs", "test_employed_yes"},
                 <<Call("", "accuracy", <<"test_employed_yes", "bl_test_probs">>)>>),
          Assign({"bl_test_dpd"},
                 {"bl_test_pred", "demographic_parity_difference", "test", "test_race_white"},
                 <<Call("", "demographic_parity_difference", <<"bl_test_pred", "test_race_white">>)>>),
          Assign({"test_acc"},
                 {"accuracy", "test_employed_yes", "test_pred"},
                 <<Call("", "accuracy", <<"test_employed_yes", "test_pred">>)>>),
          Assign({"test_dpd"},
                 {"demographic_parity_difference", "test", "test_pred", "test_race_white"},
                 <<Call("", "demographic_parity_difference", <<"test_pred", "test_race_white">>)>>),
          Expr({"bl_test_acc", "print"}, <<>>),
          Expr({"print", "test_acc"}, <<>>),
          Expr({"bl_test_dpd", "print"}, <<>>),
          Expr({"print", "test_dpd"}, <<>>)>>),
    Cell(232, 243, {},
        <<Assign({"dp_box"},
                 {"bl_test_probs", "group_box_plots", "np", "test", "test_probs"},
                 <<Call("", "group_box_plots", <<>>)>>),
          Expr({"dp_box"}, <<>>)>>)
    >>

\* the code cells of unnamed/part_000, lines 18-138
DataAnalysisNotebook ==
    <<
    Cell(18, 22, {},
        <<Import("Path", <<"pathlib", "Path">>),
          Import("pd", <<"pandas">>),
          Import("bin_years_experience", <<"helpers", "recruiting", "bin_years_experience">>),
          Import("bar_chart", <<"helpers", "plot", "bar_chart">>)>>),
    Cell(38, 38, {},
        <<Assign({"artifacts_dir"},
                 {"Path"},
                 <<CallAt("", "Path", Lit(<<"..", "..", "artifacts">>))>>)>>),
    Cell(54, 57, {},
        <<PathAssign("data_dir", "artifacts_dir", <<"data", "recruiting">>),
          Assign({"test"},
                 {"data_dir", "pd"},
                 <<CallAt("pd", "read_csv", At("data_dir", <<"processed", "test.csv">>))>>),
          Assign({"test_raw"},
                 {"data_dir", "pd"},
                 <<CallAt("pd", "read_csv", At("data_dir", <<"raw", "test.csv">>))>>)>>),
    Cell(75, 83, {},
        <<Assign({"employed_by_sex"}, {"test"}, <<>>),
          Assign({"fig_employed_by_sex"},
                 {"bar_chart", "employed_by_sex"},
                 <<Call("", "bar_chart", <<>>)>>),
          Expr({"fig_employed_by_sex"}, <<>>)>>),
    Cell(92, 102, {},
        <<Assign({"employed_by_race"}, {"test"}, <<>>),
          Assign({"fig_employed_by_race"},
                 {"bar_chart", "employed_by_race"},
                 <<Call("", "bar_chart", <<>>)>>),
          Expr({"fig_employed_by_race"}, <<>>)>>),
    Cell(120, 138, {},
        <<Assign({"employed_by_experience"}, {"bin_years_experience", "test", "test_raw"}, <<>>),
          Assign({"fig_employed_by_experience"},
                 {"bar_chart", "employed_by_experience"},
                 <<Call("", "bar_chart", <<>>)>>),
          Expr({"fig_employed_by_experience"}, <<>>)>>)
    >>

(***************************************************************************)
(* The kernel running a cell statement by statement.                       *)
(***************************************************************************)
\* the names Python itself defines that the notebooks read
Builtins == {"print", "set", "float"}

\* what a name is bound to: the cell that bound it, what made it, the path
\* it holds, whether it has been fitted, and the outside sources it is
\* computed from
Value(cell, kind, module, path, fitted, origin) ==
    [cell |-> cell, kind |-> kind, module |-> module, path |-> path,
     fitted |-> fitted, origin |-> origin]

IsImport(env, name) == name \in DOMAIN env /\ env[name].kind = "import"
Prefix(seq, n) == SubSeq(seq, 1, IF Len(seq) < n THEN Len(seq) ELSE n)
IsIntervention(v) == v.kind = "object" /\ Prefix(v.module, 2) = <<"aif360", "algorithms">>
IsPickle(v) == v.kind = "object" /\ v.module = <<"joblib", "load">>

\* the stage of the pipeline a call of an imported name belongs to
ModuleStage(module) ==
    CASE Prefix(module, 2) = <<"aif360", "algorithms">> -> "fairness"
      [] Prefix(module, 2) = <<"aif360", "datasets">> -> "dataset"
      [] Prefix(module, 2) = <<"fairlearn", "metrics">> -> "stats"
      [] Prefix(module, 2) = <<"helpers", "metrics">> -> "stats"
      [] Prefix(module, 2) = <<"helpers", "fairness_measures">> -> "stats"
      [] Prefix(module, 2) = <<"helpers", "plot">> -> "chart"
      [] module = <<"helpers", "export_plot">> -> "export"
      [] module = <<"pathlib", "Path">> -> "path"
      [] OTHER -> "other"

\* the stage a call belongs to: loaders by their function, methods by
\* the object they are called on
StageOf(c, env) ==
    CASE c.recv = "" ->
             IF IsImport(env, c.fn) THEN ModuleStage(env[c.fn].module) ELSE "other"
      [] IsImport(env, c.recv) ->
             CASE env[c.recv].module = <<"pandas">> /\ c.fn = "read_csv" -> "csv"
               [] env[c.recv].module = <<"joblib">> /\ c.fn = "load" -> "model"
               [] env[c.recv].module = <<"numpy">> /\ c.fn = "load" -> "array"
               [] OTHER -> "other"
      [] c.fn = "to_csv" -> "write"
      [] c.recv = Result -> "other"
      [] IsIntervention(env[c.recv]) -> "fairness"
      [] IsPickle(env[c.recv]) ->
             CASE c.fn \in {"fit", "transform", "fit_transform"} -> "fairness"
               [] c.fn \in {"predict", "predict_proba"} -> "predict"
               [] c.fn = "score" -> "stats"
               [] OTHER -> "other"
      [] OTHER -> "other"

\* the path a path expression names
ResolvePath(p, env) == IF p.root = "" THEN p.parts ELSE env[p.root].path \o p.parts

\* the files a call reads from outside the notebook
Sources(c, env) ==
    IF StageOf(c, env) \in {"csv", "model", "array"}
    THEN {ResolvePath(c.path, env)} ELSE {}

\* a call as it is logged
Event(c, cell, env) ==
    [cell |-> cell.first, stage |-> StageOf(c, env), recv |-> c.recv, fn |-> c.fn,
     args |-> c.args, file |-> ResolvePath(c.path, env),
     fitted |-> IF c.recv \in DOMAIN env THEN env[c.recv].fitted ELSE FALSE]

\* what a call returns
ResultOf(c, cell, env, origin) ==
    CASE c.recv = "" /\ IsImport(env, c.fn) /\ env[c.fn].module = <<"pathlib", "Path">> ->
             Value(cell.first, "path", <<>>, c.path.parts, FALSE, origin)
      [] c.recv = "" /\ IsImport(env, c.fn) ->
             Value(cell.first, "object", env[c.fn].module, <<>>, FALSE, origin)
      [] c.recv = "" -> Value(cell.first, "value", <<>>, <<>>, FALSE, origin)
      [] IsImport(env, c.recv) ->
             Value(cell.first, "object", Append(env[c.recv].module, c.fn), <<>>,
                   env[c.recv].module = <<"joblib">>, origin)
      [] c.fn = "fit" -> [env[c.recv] EXCEPT !.cell = cell.first, !.fitted = TRUE,
                                             !.origin = origin]
      [] c.fn = "copy" -> [env[c.recv] EXCEPT !.cell = cell.first, !.origin = origin]
      [] OTHER -> Value(cell.first, "value", Append(env[c.recv].module, c.fn), <<>>,
                        FALSE, origin)

\* what the k-th call of a statement returns: a copy of a result is what the
\* call before it returned
RECURSIVE ResultOfCalls(_, _, _, _, _)
ResultOfCalls(made, k, cell, env, origin) ==
    IF k = 0 \/ (made[k].recv = Result /\ made[k].fn # "copy")
    THEN Value(cell.first, "value", <<>>, <<>>, FALSE, origin)
    ELSE IF made[k].recv = Result
    THEN ResultOfCalls(made, k - 1, cell, env, origin)
    ELSE ResultOf(made[k], cell, env, origin)

\* the names a statement reads that nothing has bound
Missing(s, env) == (s.reads \ Builtins) \ DOMAIN env

\* the namespace after a statement
Bound(s, cell, env) ==
    LET origin == UNION ({env[r].origin : r \in s.reads \cap DOMAIN env}
                         \cup {Sources(s.calls[k], env) : k \in DOMAIN s.calls})
        result ==
            CASE s.op = "import" -> Value(cell.first, "import", s.module, <<>>, FALSE, {})
              [] s.op = "path" ->
                     Value(cell.first, "path", <<>>, ResolvePath(s.path, env), FALSE, origin)
              [] s.op = "def" -> Value(cell.first, "function", <<>>, <<>>, FALSE, origin)
              [] s.calls = <<>> -> Value(cell.first, "value", <<>>, <<>>, FALSE, origin)
              [] OTHER -> ResultOfCalls(s.calls, Len(s.calls), cell, env, origin)
        fitted == {s.calls[k].recv : k \in {j \in DOMAIN s.calls :
                                               s.calls[j].fn \in {"fit", "fit_transform"}}}
    IN [n \in s.binds |-> result]
       @@ [n \in s.mutates |-> [env[n] EXCEPT !.origin = origin]]
       @@ [n \in fitted \cap DOMAIN env |-> [env[n] EXCEPT !.fitted = TRUE]]
       @@ env

\* how many assert statements a cell has up to its i-th statement
Checks(cell, i) == Cardinality({k \in 1..i : cell.stmts[k].op = "assert"})

\* one statement: a NameError or a failed assertion stops the cell
RunStmt(cell, i, fail, st) ==
    LET s == cell.stmts[i]
    IN IF Missing(s, st.ns) # {}
       THEN [st EXCEPT !.errors = <<[error |-> "NameError", cell |-> cell.first,
                                     names |-> Missing(s, st.ns)]>>]
       ELSE IF s.op = "assert" /\ Checks(cell, i) = fail
       THEN [st EXCEPT !.errors = <<[error |-> "AssertionError", cell |-> cell.first,
                                     names |-> {}]>>]
       ELSE [ns |-> Bound(s, cell, st.ns),
             events |-> st.events \o [k \in DOMAIN s.calls |-> Event(s.calls[k], cell, st.ns)],
             errors |-> <<>>]

RECURSIVE RunStmts(_, _, _, _)
RunStmts(cell, i, fail, st) ==
    IF i > Len(cell.stmts) \/ st.errors # <<>> THEN st
    ELSE RunStmts(cell, i + 1, fail, RunStmt(cell, i, fail, st))

\* the kernel runs the next code cell of the notebook; an exception ends the
\* run (pc = 0) and its traceback is shown
RunCodeCell(notebook, cells) ==
    /\ nb = notebook
    /\ pc \in 1..Len(cells)
    /\ \E fail \in 0..Checks(cells[pc], Len(cells[pc].stmts)) :
           LET r == RunStmts(cells[pc], 1, fail,
                             [ns |-> ns, events |-> <<>>, errors |-> <<>>])
           IN /\ ns' = r.ns
              /\ calls' = calls \o r.events
              /\ out' = out \o r.errors
              /\ pc' = IF r.errors = <<>> THEN pc + 1 ELSE 0
    /\ UNCHANGED <<nb, heap, disk>>

\* a notebook without the i-th statement of its c-th code cell
DropStmt(cells, c, i) ==
    [cells EXCEPT ![c].stmts = SubSeq(@, 1, i - 1) \o SubSeq(@, i + 1, Len(@))]

\* the Hardt notebook without "eopp = eopp.fit(val_sds, val_sds_pred)"
RunHardt_NoFit == RunCodeCell("hardt", DropStmt(HardtNotebook, 8, 2))
\* the Kamishima notebook without "test_probs = np.load(...)"
RunKamishima_NoLoad == RunCodeCell("kamishima", DropStmt(KamishimaNotebook, 9, 1))

RunFtu == RunCodeCell("ftu", FtuNotebook)
RunHardtAdult == RunCodeCell("hardt_adult", HardtAdultNotebook)
RunFeldmanAdult == RunCodeCell("feldman_adult", FeldmanAdultNotebook)
RunHardt == RunCodeCell("hardt", HardtNotebook)
RunPreprocessing == RunCodeCell("preprocessing", PreprocessingNotebook)
RunZemel == RunCodeCell("zemel", ZemelNotebook)
RunPleiss == RunCodeCell("pleiss", PleissNotebook)
RunKamiran == RunCodeCell("kamiran", KamiranNotebook)
RunFeldman == RunCodeCell("feldman", FeldmanNotebook)
RunKamishima == RunCodeCell("kamishima", KamishimaNotebook)
RunDataAnalysis == RunCodeCell("data_analysis", DataAnalysisNotebook)

InterventionNotebooks ==
    {"ftu", "hardt_adult", "feldman_adult", "hardt", "zemel", "pleiss", "kamiran",
     "feldman", "kamishima"}
AllNotebooks == InterventionNotebooks \cup {"preprocessing", "data_analysis"}

\* the code cells of a notebook
CellsOf(notebook) ==
    CASE notebook = "ftu" -> FtuNotebook
      [] notebook = "hardt_adult" -> HardtAdultNotebook
      [] notebook = "feldman_adult" -> FeldmanAdultNotebook
      [] notebook = "hardt" -> HardtNotebook
      [] notebook = "preprocessing" -> PreprocessingNotebook
      [] notebook = "zemel" -> ZemelNotebook
      [] notebook = "pleiss" -> PleissNotebook
      [] notebook = "kamiran" -> KamiranNotebook
      [] notebook = "feldman" -> FeldmanNotebook
      [] notebook = "kamishima" -> KamishimaNotebook
      [] notebook = "data_analysis" -> DataAnalysisNotebook
\* the run has reached the end of the notebook
RanToEnd == pc = Len(CellsOf(nb)) + 1

\* a fresh kernel in front of the first code cell of a notebook
InitCells ==
    /\ nb \in AllNotebooks
    /\ pc = 1
    /\ ns = <<>>
    /\ heap = <<>>
    /\ out = <<>>
    /\ calls = <<>>
    /\ disk = <<>>

NextCells ==
    \/ RunFtu \/ RunHardtAdult \/ RunFeldmanAdult \/ RunHardt \/ RunPreprocessing
    \/ RunZemel \/ RunPleiss \/ RunKamiran \/ RunFeldman \/ RunKamishima
    \/ RunDataAnalysis

SpecCells == InitCells /\ [][NextCells]_vars


(***************************************************************************)
(* The order of the stages in a run of a notebook.                         *)
(***************************************************************************)
Pipeline == <<"csv", "model", "fairness", "stats", "chart">>
Rank(stage) == CHOOSE r \in DOMAIN Pipeline : Pipeline[r] = stage
\* the calls of a stage, and of the whole pipeline, by their place in the log
StageCalls(stage) == {k \in DOMAIN calls : calls[k].stage = stage}
PipelineCalls == {k \in DOMAIN calls : calls[k].stage \in Range(Pipeline)}
Preceded(k, stage) == \E j \in StageCalls(stage) : j < k
\* predict and transform run on a fitted intervention only
AppliedWhenFitted ==
    \A k \in StageCalls("fairness") :
        calls[k].fn \in {"predict", "transform"} => calls[k].fitted

UciFiles ==
    {<<"https://archive.ics.uci.edu/ml/machine-learning-databases/adult/adult.data">>,
     <<"https://archive.ics.uci.edu/ml/machine-learning-databases/adult/adult.test">>}
\* a relative path into the artifacts directory
UnderArtifacts(file) ==
    \E n \in DOMAIN file : file[n] = "artifacts" /\ \A k \in 1..(n - 1) : file[k] = ".."
Allowed(file) == UnderArtifacts(file) \/ (nb = "preprocessing" /\ file \in UciFiles)
NameErrors == {k \in DOMAIN out : out[k].error = "NameError"}
Loads == StageCalls("csv") \cup StageCalls("model") \cup StageCalls("array")

\* C7: no code cell of any notebook reads a name that an earlier cell of the
\* same notebook or an import has not bound (no run raises a NameError), and
\* every file a notebook loads, and every source a bound name is computed
\* from, is under the artifacts directory or, in preprocessing, one of the
\* two UCI files.
C7_NotebooksStandalone ==
    /\ NameErrors = {}
    /\ \A k \in Loads : Allowed(calls[k].file)
    /\ \A n \in DOMAIN ns : \A file \in ns[n].origin : Allowed(file)

\* preprocessing has run to its end on the two UCI files, and the frames it
\* writes are computed from them
C7_Witness ==
    /\ nb = "preprocessing" /\ RanToEnd
    /\ {calls[k].file : k \in Loads} = UciFiles
    /\ UNION {ns[n].origin : n \in DOMAIN ns} = UciFiles

(***************************************************************************)
(* Python strings.                                                         *)
(***************************************************************************)
\* the characters of the model in code point order
CodePoints == "\t\n ()-.0123456789<=>?ABCDEFGHIJKLMNOPQRSTUVWXYZ_abcdefghijklmnopqrstuvwxyz|"
Ord(c) == CHOOSE i \in 1..Len(CodePoints) : SubSeq(CodePoints, i, i) = c
Whitespace == {" ", "\t", "\n"}
Uppercase == "ABCDEFGHIJKLMNOPQRSTUVWXYZ"
Lowercase == "abcdefghijklmnopqrstuvwxyz"
CharAt(s, i) == SubSeq(s, i, i)

RECURSIVE LStrip(_)
LStrip(s) == IF s # "" /\ Head(s) \in Whitespace THEN LStrip(Tail(s)) ELSE s
RECURSIVE RStrip(_)
RStrip(s) ==
    IF s # "" /\ CharAt(s, Len(s)) \in Whitespace
    THEN RStrip(SubSeq(s, 1, Len(s) - 1)) ELSE s
\* s.strip()
Strip(s) == RStrip(LStrip(s))

LowerChar(c) ==
    IF \E i \in 1..Len(Uppercase) : CharAt(Uppercase, i) = c
    THEN CharAt(Lowercase, CHOOSE i \in 1..Len(Uppercase) : CharAt(Uppercase, i) = c)
    ELSE c
RECURSIVE Lower(_)
\* s.lower()
Lower(s) == IF s = "" THEN "" ELSE LowerChar(Head(s)) \o Lower(Tail(s))

RECURSIVE Replace(_, _, _)
\* s.replace(old, new) for a one-character old
Replace(s, old, new) ==
    IF s = "" THEN ""
    ELSE (IF Head(s) = old THEN new ELSE Head(s)) \o Replace(Tail(s), old, new)

RECURSIVE StrLess(_, _)
\* a < b
StrLess(a, b) ==
    IF b = "" THEN FALSE
    ELSE IF a = "" THEN TRUE
    ELSE IF Head(a) = Head(b) THEN StrLess(Tail(a), Tail(b))
    ELSE Ord(Head(a)) < Ord(Head(b))

RECURSIVE SortedStrings(_)
\* sorted(S) for a set of strings
SortedStrings(S) ==
    IF S = {} THEN <<>>
    ELSE LET m == CHOOSE x \in S : \A y \in S \ {x} : StrLess(x, y)
         IN <<m>> \o SortedStrings(S \ {m})

(***************************************************************************)
(* clean_string and parse_native_country of the preprocessing notebook.    *)
(***************************************************************************)
\* without the lower-casing
clean_string_CaseKept(s) == Replace(Strip(s), "-", "_")

clean_string(s) == Replace(Lower(Strip(s)), "-", "_")

parse_native_country(country) ==
    LET cleaned == clean_string(country)
    IN IF cleaned = "united_states" \/ cleaned = "mexico" THEN cleaned ELSE "other"

\* the two functions called by themselves on a string
MaxPad == 1
Pads(n) == UNION {[1..k -> Whitespace] : k \in 0..n}
RECURSIVE Join(_)
Join(chars) == IF chars = <<>> THEN "" ELSE Head(chars) \o Join(Tail(chars))
CountryWords ==
    {"United-States", "united-states", "UNITED-STATES", "United_States", "united_states",
     "United States", "United--States", "UnitedStates", "United-State", "-United-States",
     "Mexico", "mexico", "MEXICO", "MeXiCo", "Mexic", "Mexico-", "Mexi co", "New-Mexico",
     "Cuba", "Outlying-US(Guam-USVI-etc)", "South", "?", "", "other", "Other", "_", "-"}
CountryInputs ==
    {Join(l) \o w \o Join(r) : l \in Pads(MaxPad), r \in Pads(MaxPad), w \in CountryWords}

InitNativeCountry ==
    /\ nb = "native_country"
    /\ pc = "call"
    /\ \E s \in CountryInputs : ns = [country |-> s]
    /\ heap = <<>> /\ out = <<>> /\ calls = <<>> /\ disk = <<>>

\* df.native_country.map(parse_native_country) on one value
ParseNativeCountry ==
    /\ nb = "native_country" /\ pc = "call"
    /\ ns' = Bind([result |-> parse_native_country(ns["country"])], ns)
    /\ pc' = "parsed"
    /\ UNCHANGED <<nb, heap, out, calls, disk>>

\* df.education.map(clean_string) on one value
CleanString ==
    /\ nb = "native_country" /\ pc = "call"
    /\ ns' = Bind([result |-> clean_string(ns["country"])], ns)
    /\ pc' = "cleaned"
    /\ UNCHANGED <<nb, heap, out, calls, disk>>

NextNativeCountry == ParseNativeCountry \/ CleanString
SpecNativeCountry == InitNativeCountry /\ [][NextNativeCountry]_vars

\* character by character: hyphen and underscore alike, letters whatever
\* their case
SameChar(c, d) == (IF c = "-" THEN "_" ELSE LowerChar(c)) = d
\* s is name, in any case and with hyphens for underscores, between
\* whitespace
Spells(s, name) ==
    \E i \in 1..(Len(s) + 1) :
        LET j == i + Len(name) - 1
        IN /\ j <= Len(s)
           /\ \A k \in 1..(i - 1) : CharAt(s, k) \in Whitespace
           /\ \A k \in (j + 1)..Len(s) : CharAt(s, k) \in Whitespace
           /\ \A k \in 1..Len(name) : SameChar(CharAt(s, i + k - 1), CharAt(name, k))

\* C10: for every input string parse_native_country returns "united_states",
\* "mexico" or "other"; it returns "united_states" or "mexico" exactly when
\* the input, stripped of surrounding whitespace, lower-cased and with its
\* hyphens replaced by underscores, is that name, and "other" otherwise.
C10_ParseNativeCountry ==
    (nb = "native_country" /\ pc = "parsed") =>
        /\ ns["result"] \in {"united_states", "mexico", "other"}
        /\ \A name \in {"united_states", "mexico"} :
               ns["result"] = name <=> Spells(ns["country"], name)
        /\ ns["result"] = "other" <=>
               \A name \in {"united_states", "mexico"} : ~Spells(ns["country"], name)

\* a padded, capitalised, hyphenated United-States has been parsed
C10_Witness ==
    /\ nb = "native_country" /\ pc = "parsed"
    /\ ns["country"] = " United-States\n"
    /\ ns["result"] = "united_states"

(***************************************************************************)
(* pandas as the preprocessing notebook uses it.  A frame is its column    *)
(* names in order and its rows; a CSV file is its lines, each a tuple of   *)
(* fields.                                                                 *)
(***************************************************************************)
\* a missing value
NaN == "NaN"
\* the fields read_csv takes as missing: its own defaults and na_values
DefaultNaValues == {"", "NaN", "nan", "NA", "N/A", "NULL", "null"}

\* pd.read_csv(path, header=None, na_values=.., skiprows=.., names=..); a
\* number is kept as its numeral
read_csv(lines, na_values, skiprows, columns) ==
    LET kept == SubSeq(lines, skiprows + 1, Len(lines))
        Field(line, k) ==
            IF k > Len(line) \/ line[k] \in DefaultNaValues \cup na_values
            THEN NaN ELSE line[k]
    IN [cols |-> columns,
        rows |-> [i \in DOMAIN kept |->
                    [c \in Range(columns) |->
                        Field(kept[i], CHOOSE k \in DOMAIN columns : columns[k] = c)]]]

\* df.dropna().reset_index(drop=True)
dropna(df) ==
    [df EXCEPT !.rows = SelectSeq(@, LAMBDA r : \A c \in Range(df.cols) : r[c] # NaN)]

\* df[columns]
DfSelect(df, columns) ==
    [cols |-> columns,
     rows |-> [i \in DOMAIN df.rows |-> [c \in Range(columns) |-> df.rows[i][c]]]]

\* pd.concat([a, b], axis=1)
DfConcat(a, b) ==
    [cols |-> a.cols \o b.cols,
     rows |-> [i \in DOMAIN a.rows |-> b.rows[i] @@ a.rows[i]]]

RECURSIVE Chain(_)
\* the sequences of a sequence one after the other
Chain(seqs) == IF seqs = <<>> THEN <<>> ELSE Head(seqs) \o Chain(Tail(seqs))

\* the indicator columns of one feature: one per value, values sorted
Dummies(df, feature) ==
    LET values == SortedStrings(Range(Column(df, feature)))
    IN [k \in DOMAIN values |->
          [name |-> feature \o "_" \o values[k], feature |-> feature, value |-> values[k]]]

\* pd.get_dummies(df, dtype=np.int32) for a frame of string columns
get_dummies(df) ==
    LET made == Chain([k \in DOMAIN df.cols |-> Dummies(df, df.cols[k])])
    IN [cols |-> [k \in DOMAIN made |-> made[k].name],
        rows |-> [i \in DOMAIN df.rows |->
                    [n \in {made[k].name : k \in DOMAIN made} |->
                        IF \E k \in DOMAIN made :
                               made[k].name = n /\ df.rows[i][made[k].feature] = made[k].value
                        THEN 1 ELSE 0]]]

\* set(df.column)
ValueSet(df, col) == Range(Column(df, col))

\* n_test of train_test_split(test_size=0.2): ceil(0.2 * n)
TestSize(n) == (n + 4) \div 5

\* the rows of a frame at the places of a set, in their order
Take(df, places) ==
    [df EXCEPT !.rows = [k \in 1..Cardinality(places) |-> df.rows[SetToSeq(places)[k]]]]

\* StandardScaler().fit(train).transform(df) on the given columns: the scaled
\* values are kept as terms
Scaled(df, columns) ==
    [df EXCEPT !.rows = [i \in DOMAIN df.rows |->
        [c \in DOMAIN df.rows[i] |->
            IF c \in Range(columns) THEN Term("ss.transform", <<df.rows[i][c]>>)
            ELSE df.rows[i][c]]]]

(***************************************************************************)
(* The two UCI files.                                                      *)
(***************************************************************************)
AdultData == Path("https://archive.ics.uci.edu/ml/machine-learning-databases/adult/adult.data")
AdultTest == Path("https://archive.ics.uci.edu/ml/machine-learning-databases/adult/adult.test")

\* a line of the files, values from adult.names
AdultLine(age, workclass, fnlwgt, education, education_num, occupation,
          sex, native_country, salary) ==
    <<age, workclass, fnlwgt, education, education_num, " Never-married", occupation,
      " Not-in-family", " White", sex, " 2174", " 0", " 40", native_country, salary>>

AdultLines ==
    <<AdultLine("39", " State-gov", " 77516", " Bachelors", " 13", " Adm-clerical",
                " Male", " United-States", " <=50K"),
      AdultLine("50", " State-gov", "", " Bachelors", " 13", " Adm-clerical",
                " Male", " United-States", " >50K"),
      AdultLine("38", " State-gov", " 215646", " Bachelors", "", " Adm-clerical",
                " Female", " United-States", " >50K."),
      AdultLine("53", " ?", " 234721", " Bachelors", " 13", " Adm-clerical",
                " Male", " United-States", " <=50K."),
      AdultLine("28", " State-gov", " 338409", " Bachelors", " 13", " Sales",
                " Female", " Cuba", " <=50K"),
      AdultLine("37", " State-gov", " 284582", " HS-grad", " 9", " Adm-clerical",
                " Female", " Mexico", " >50K"),
      AdultLine("49", " Private", " 160187", " Bachelors", " 13", " Adm-clerical",
                " Male", " United-States", " >50K.")>>

\* the largest number of lines of adult.data and of adult.test
MaxTrainLines == 2
MaxTestLines == 1

\* files of up to n lines
AdultFiles(n) ==
    {[k \in DOMAIN picks |-> AdultLines[picks[k]]] :
        picks \in {p \in UNION {[1..m -> DOMAIN AdultLines] : m \in 1..n} :
                      \A k \in 1..(Len(p) - 1) : p[k] <= p[k + 1]}}

\* the first line of adult.test
TestHeader == <<"|1x3 Cross validator">>

InitPreprocessing ==
    /\ nb = "preprocessing"
    /\ pc = "imports"
    /\ \E train \in AdultFiles(MaxTrainLines), test \in AdultFiles(MaxTestLines) :
           disk = (AdultData :> train) @@ (AdultTest :> <<TestHeader>> \o test)
    /\ ns = <<>> /\ heap = <<>> /\ out = <<>> /\ calls = <<>>

(***************************************************************************)
(* The preprocessing notebook, cell by cell.                               *)
(***************************************************************************)
ArtifactsDir2 == <<"../../artifacts">>

\* what a cell does: the names it binds, what it shows, the calls it makes,
\* the files it writes and the cell that runs next ("error" after an
\* exception)
Step(binds, prints, made, files, next) ==
    [binds |-> binds, prints |-> prints, calls |-> made, files |-> files, next |-> next]
Raise(error, cell) ==
    Step(<<>>, <<[error |-> error, cell |-> cell]>>, <<>>, <<>>, "error")
ReadCall(path) == [fn |-> "read_csv", path |-> path]
WriteCall(path, columns) == [fn |-> "to_csv", path |-> path, columns |-> columns]

RunPrepCell(cell, eff) ==
    /\ nb = "preprocessing" /\ pc = cell
    /\ ns' = Bind(eff.binds, ns)
    /\ out' = out \o eff.prints
    /\ calls' = calls \o eff.calls
    /\ disk' = eff.files @@ disk
    /\ pc' = eff.next
    /\ UNCHANGED <<nb, heap>>

PrepImports ==
    RunPrepCell("imports",
        Step(Imported({"Path", "np", "pd", "train_test_split", "StandardScaler"}),
             <<>>, <<>>, <<>>, "names"))

PrepNames ==
    RunPrepCell("names",
        Step([names |-> <<"age", "workclass", "fnlwgt", "education", "education_num",
                          "marital_status", "occupation", "relationship", "race", "sex",
                          "capital_gain", "capital_loss", "hours_per_week",
                          "native_country", "salary">>],
             <<>>, <<>>, <<>>, "functions"))

PrepFunctions ==
    RunPrepCell("functions",
        Step([clean_string |-> "clean_string",
              parse_native_country |-> "parse_native_country"],
             <<>>, <<>>, <<>>, "load_train"))

\* .assign(...) with salary taken as above 50K in either file's spelling
Assigned_EitherSpelling(df, positive) ==
    [df EXCEPT !.rows = [i \in DOMAIN df.rows |->
        [c \in DOMAIN df.rows[i] |->
            CASE c \in {"education", "marital_status", "occupation", "race",
                        "relationship", "workclass"} -> clean_string(df.rows[i][c])
              [] c = "native_country" -> parse_native_country(df.rows[i][c])
              [] c = "salary" -> IF SubSeq(df.rows[i][c], 1, 5) = " >50K" THEN 1 ELSE 0
              [] c = "sex" -> IF df.rows[i][c] = " Male" THEN 1 ELSE 0
              [] OTHER -> df.rows[i][c]]]]

\* .assign(...): the string columns cleaned, native_country grouped, salary
\* and sex as 0 or 1
Assigned(df, positive) ==
    [df EXCEPT !.rows = [i \in DOMAIN df.rows |->
        [c \in DOMAIN df.rows[i] |->
            CASE c \in {"education", "marital_status", "occupation", "race",
                        "relationship", "workclass"} -> clean_string(df.rows[i][c])
              [] c = "native_country" -> parse_native_country(df.rows[i][c])
              [] c = "salary" -> IF df.rows[i][c] = positive THEN 1 ELSE 0
              [] c = "sex" -> IF df.rows[i][c] = " Male" THEN 1 ELSE 0
              [] OTHER -> df.rows[i][c]]]]

\* the rows with a missing value removed before the two columns are dropped
LoadAdult_DropnaFirst(lines, skiprows, columns, positive) ==
    Assigned(DfDropAll(dropna(read_csv(lines, {" ?"}, skiprows, columns)),
                       <<"fnlwgt", "education_num">>),
             positive)

\* pd.read_csv(...).drop(columns=[...]).dropna().reset_index(drop=True).assign(...)
LoadAdult(lines, skiprows, columns, positive) ==
    Assigned(dropna(DfDropAll(read_csv(lines, {" ?"}, skiprows, columns),
                              <<"fnlwgt", "education_num">>)),
             positive)

PrepLoadTrainCell(env) ==
    Step([train |-> LoadAdult(ReadFile(AdultData), 0, env["names"], " >50K")],
         <<>>, <<ReadCall(AdultData)>>, <<>>, "load_test")
PrepLoadTrain == RunPrepCell("load_train", PrepLoadTrainCell(ns))

PrepLoadTestCell(env) ==
    Step([test |-> LoadAdult(ReadFile(AdultTest), 1, env["names"], " >50K.")],
         <<>>, <<ReadCall(AdultTest)>>, <<>>, "categories_check")
PrepLoadTest == RunPrepCell("load_test", PrepLoadTestCell(ns))

\* the four asserts on the category sets
PrepCheckCategoriesCell(env) ==
    IF \A c \in {"education", "race", "relationship", "marital_status"} :
           ValueSet(env["train"], c) = ValueSet(env["test"], c)
    THEN Step(<<>>, <<>>, <<>>, <<>>, "features")
    ELSE Raise("AssertionError", "categories_check")
PrepCheckCategories == RunPrepCell("categories_check", PrepCheckCategoriesCell(ns))

PrepFeatures ==
    RunPrepCell("features",
        Step([one_hot_features |-> <<"workclass", "education", "occupation", "race",
                                     "relationship", "marital_status", "native_country">>,
              cts_features |-> <<"age", "capital_gain", "capital_loss", "hours_per_week">>,
              binary_features |-> <<"sex", "salary">>],
             <<>>, <<>>, <<>>, "value_counts"))

\* train["race"].value_counts(), shown
PrepValueCountsCell(env) ==
    LET race == Column(env["train"], "race")
    IN Step(<<>>,
            <<[shown |-> [v \in Range(race) |->
                            Cardinality({i \in DOMAIN race : race[i] = v})]]>>,
            <<>>, <<>>, "encode")
PrepValueCounts == RunPrepCell("value_counts", PrepValueCountsCell(ns))

\* the encoded train frame written out by the encoding cell itself, ahead of
\* the column assert
PrepEncodeCell_WritesFirst(env) ==
    LET Encoded(df) == DfConcat(df, get_dummies(DfSelect(df, env["one_hot_features"])))
        train_path == Div(AdultProcessed(ArtifactsDir3), "train.csv")
    IN Step([train_df |-> Encoded(env["train"]), test_df |-> Encoded(env["test"])],
            <<>>, <<WriteCall(train_path, Encoded(env["train"]).cols)>>,
            train_path :> Encoded(env["train"]), "columns_check")

PrepEncodeCell(env) ==
    LET Encoded(df) == DfConcat(df, get_dummies(DfSelect(df, env["one_hot_features"])))
    IN Step([train_df |-> Encoded(env["train"]), test_df |-> Encoded(env["test"])],
            <<>>, <<>>, <<>>, "columns_check")
PrepEncode == RunPrepCell("encode", PrepEncodeCell(ns))

\* the column assert left out
PrepCheckColumnsCell_NoAssert(env) == Step(<<>>, <<>>, <<>>, <<>>, "split")

\* assert train_df.columns.tolist() == test_df.columns.tolist()
PrepCheckColumnsCell(env) ==
    IF env["train_df"].cols = env["test_df"].cols
    THEN Step(<<>>, <<>>, <<>>, <<>>, "split")
    ELSE Raise("AssertionError", "columns_check")
PrepCheckColumns == RunPrepCell("columns_check", PrepCheckColumnsCell(ns))

\* train_test_split(train_df, test_size=0.2, random_state=42): which rows go
\* to the validation split is the shuffle's choice
PrepSplitCell(env, val) ==
    LET n == NRows(env["train_df"])
    IN IF n = 0 \/ n - TestSize(n) = 0
       THEN Raise("ValueError", "split")
       ELSE Step([train_df |-> Take(env["train_df"], (1..n) \ val),
                  val_df |-> Take(env["train_df"], val)],
                 <<>>, <<>>, <<>>, "artifacts_dir")
PrepSplit ==
    /\ nb = "preprocessing" /\ pc = "split"
    /\ \E val \in {s \in SUBSET (1..NRows(ns["train_df"])) :
                      Cardinality(s) = TestSize(NRows(ns["train_df"]))} :
           RunPrepCell("split", PrepSplitCell(ns, val))

PrepArtifactsDir ==
    RunPrepCell("artifacts_dir",
        Step([artifacts_dir |-> ArtifactsDir2], <<>>, <<>>, <<>>, "artifacts_dir_override"))

PrepArtifactsDirOverride ==
    RunPrepCell("artifacts_dir_override",
        Step([artifacts_dir |-> ArtifactsDir3], <<>>, <<>>, <<>>, "data_dir"))

PrepDataDirCell(env) ==
    Step([data_dir |-> Div(Div(env["artifacts_dir"], "data"), "adult")],
         <<>>, <<>>, <<>>, "export")
PrepDataDir == RunPrepCell("data_dir", PrepDataDirCell(ns))

\* data_dir / "processed" / name
ProcessedFile(env, name) == Div(Div(env["data_dir"], "processed"), name)

\* the three to_csv(path, index=False) calls of an export cell
ToCsv(env, suffix, train_csv, val_csv, test_csv, next) ==
    LET train_path == ProcessedFile(env, "train" \o suffix)
        val_path == ProcessedFile(env, "val" \o suffix)
        test_path == ProcessedFile(env, "test" \o suffix)
    IN [binds |-> <<>>, prints |-> <<>>,
        calls |-> <<WriteCall(train_path, train_csv.cols), WriteCall(val_path, val_csv.cols),
                    WriteCall(test_path, test_csv.cols)>>,
        files |-> (test_path :> test_csv) @@ (val_path :> val_csv)
                  @@ (train_path :> train_csv),
        next |-> next]

PrepExportCell(env) ==
    LET original_features ==
            env["cts_features"] \o env["one_hot_features"] \o env["binary_features"]
        written == ToCsv(env, ".csv", DfSelect(env["train_df"], original_features),
                         DfSelect(env["val_df"], original_features),
                         DfSelect(env["test_df"], original_features), "scale")
    IN [written EXCEPT !.binds = [original_features |-> original_features]]
PrepExport == RunPrepCell("export", PrepExportCell(ns))

PrepScaleCell(env) ==
    Step([ss |-> Term("StandardScaler", <<>>),
          train_df |-> Scaled(env["train_df"], env["cts_features"]),
          val_df |-> Scaled(env["val_df"], env["cts_features"]),
          test_df |-> Scaled(env["test_df"], env["cts_features"])],
         <<>>, <<>>, <<>>, "export_one_hot")
PrepScale == RunPrepCell("scale", PrepScaleCell(ns))

\* the one-hot export with sex dropped along with the one-hot features
PrepExportOneHotCell_SexDropped(env) ==
    ToCsv(env, "-one-hot.csv",
          DfDropAll(env["train_df"], env["one_hot_features"] \o <<"sex">>),
          DfDropAll(env["val_df"], env["one_hot_features"] \o <<"sex">>),
          DfDropAll(env["test_df"], env["one_hot_features"] \o <<"sex">>), "done")

PrepExportOneHotCell(env) ==
    ToCsv(env, "-one-hot.csv", DfDropAll(env["train_df"], env["one_hot_features"]),
          DfDropAll(env["val_df"], env["one_hot_features"]),
          DfDropAll(env["test_df"], env["one_hot_features"]), "done")
PrepExportOneHot == RunPrepCell("export_one_hot", PrepExportOneHotCell(ns))

NextPreprocessing ==
    \/ PrepImports \/ PrepNames \/ PrepFunctions \/ PrepLoadTrain \/ PrepLoadTest
    \/ PrepCheckCategories \/ PrepFeatures \/ PrepValueCounts \/ PrepEncode
    \/ PrepCheckColumns \/ PrepSplit \/ PrepArtifactsDir \/ PrepArtifactsDirOverride
    \/ PrepDataDir \/ PrepExport \/ PrepScale \/ PrepExportOneHot

SpecPreprocessing == InitPreprocessing /\ [][NextPreprocessing]_vars

(***************************************************************************)
(* What preprocessing keeps and writes.                                    *)
(***************************************************************************)
\* the files a run has written
Written == DOMAIN disk \ {AdultData, AdultTest}
ProcessedFiles ==
    {Div(AdultProcessed(ArtifactsDir3), name) :
        name \in {"train.csv", "val.csv", "test.csv", "train-one-hot.csv",
                  "val-one-hot.csv", "test-one-hot.csv"}}
DroppedFeatures == {"fnlwgt", "education_num"}
\* the places of the two features in a line
DroppedFields == {3, 5}
\* a line with every field but the two there
CompleteElsewhere(line) ==
    /\ Len(line) = 15
    /\ \A k \in (1..15) \ DroppedFields : line[k] \notin DefaultNaValues \cup {" ?"}
Ages(lines) == [k \in DOMAIN lines |-> lines[k][1]]

\* C8: none of the CSV files preprocessing writes has a column fnlwgt or
\* education_num, and the rows it keeps of adult.data and of adult.test are
\* the lines with no other field missing, whatever these two fields hold.
C8_WeightAndEducationNumDropped ==
    nb = "preprocessing" =>
        /\ \A p \in Written : Range(disk[p].cols) \cap DroppedFeatures = {}
        /\ "train" \in DOMAIN ns =>
               Column(ns["train"], "age") = Ages(SelectSeq(disk[AdultData], CompleteElsewhere))
        /\ "test" \in DOMAIN ns =>
               Column(ns["test"], "age")
                   = Ages(SelectSeq(Tail(disk[AdultTest]), CompleteElsewhere))

\* a run has written the six files from an adult.data with a line without
\* its fnlwgt, and kept the line
C8_Witness ==
    /\ nb = "preprocessing" /\ pc = "done"
    /\ Written = ProcessedFiles
    /\ \E k \in DOMAIN disk[AdultData] : disk[AdultData][k][3] = ""
    /\ NRows(ns["train"]) = Len(disk[AdultData])

OneHot ==
    {"workclass", "education", "occupation", "race", "relationship", "marital_status",
     "native_country"}
IsError(shown, error) == "error" \in DOMAIN shown /\ shown["error"] = error
\* both assertion cells have run and neither raised
ChecksPassed ==
    /\ nb = "preprocessing"
    /\ "test_df" \in DOMAIN ns
    /\ pc # "columns_check"
    /\ \A k \in DOMAIN out : ~IsError(out[k], "AssertionError")

\* C9: when the category asserts and the column assert of the preprocessing
\* notebook have passed, each of the seven one-hot-encoded variables has the
\* same set of values in train and in test.
C9_SameCategories ==
    ChecksPassed => \A c \in OneHot : ValueSet(ns["train"], c) = ValueSet(ns["test"], c)

\* a run with two rows of train and one of test has passed the checks and
\* run to its end
C9_Witness ==
    /\ ChecksPassed /\ pc = "done"
    /\ NRows(ns["train"]) = 2 /\ NRows(ns["test"]) = 1

(***************************************************************************)
(* The binary features.                                                    *)
(***************************************************************************)
\* the lines of a file that the load keeps, in their order
KeptLines(lines) == SelectSeq(lines, CompleteElsewhere)
\* the places of sex and salary in a line
SexField == 10
SalaryField == 15
\* a loaded frame holds, row by row, 1 for the lines whose salary is
\* `positive` and whose sex is " Male", and 0 for all others
BinaryEncoded(df, lines, positive) ==
    /\ NRows(df) = Len(KeptLines(lines))
    /\ \A k \in DOMAIN df.rows :
           /\ df.rows[k]["salary"] \in {0, 1}
           /\ df.rows[k]["sex"] \in {0, 1}
           /\ df.rows[k]["salary"] = 1 <=> KeptLines(lines)[k][SalaryField] = positive
           /\ df.rows[k]["sex"] = 1 <=> KeptLines(lines)[k][SexField] = " Male"

\* C11: salary and sex are 0 or 1 in both loaded frames; salary is 1 exactly
\* for the lines of adult.data that read " >50K" and the lines of adult.test
\* that read " >50K.", 0 for every other value, the other file's spelling
\* included; sex is 1 exactly for the lines that read " Male".
C11_BinaryFeatures ==
    nb = "preprocessing" =>
        /\ "train" \in DOMAIN ns =>
               BinaryEncoded(ns["train"], disk[AdultData], " >50K")
        /\ "test" \in DOMAIN ns =>
               BinaryEncoded(ns["test"], Tail(disk[AdultTest]), " >50K.")

\* both files are loaded; adult.data has a line in its own spelling and one
\* in the spelling of adult.test, and adult.test a line in its own
C11_Witness ==
    /\ nb = "preprocessing" /\ "test" \in DOMAIN ns
    /\ \E j, k \in DOMAIN ns["train"].rows :
           /\ KeptLines(disk[AdultData])[j][SalaryField] = " >50K"
           /\ KeptLines(disk[AdultData])[k][SalaryField] = " >50K."
           /\ ns["train"].rows[j]["salary"] = 1 /\ ns["train"].rows[k]["salary"] = 0
    /\ \E k \in DOMAIN ns["test"].rows : ns["test"].rows[k]["salary"] = 1

(***************************************************************************)
(* The hosted notebooks: the source notebooks without their export cells.  *)
(***************************************************************************)
\* the cells of a notebook that carry a tag, by their first line
TaggedCells(cells, tag) == {cells[k].first : k \in {j \in DOMAIN cells : tag \in cells[j].tags}}
\* a notebook with its export-tagged cells removed
Stripped(cells) == SelectSeq(cells, LAMBDA c : "export" \notin c.tags)
\* a notebook with one more cell tagged
Tagged(cells, first, tag) ==
    [k \in DOMAIN cells |->
        IF cells[k].first = first THEN [cells[k] EXCEPT !.tags = @ \cup {tag}] ELSE cells[k]]

\* the notebooks kept in source form, and the hosted form of each
SourceNotebooks == {"preprocessing", "zemel", "pleiss", "kamiran"}
Hosted(notebook) == notebook \o ".hosted"
SourceOf(notebook) == CHOOSE s \in SourceNotebooks : notebook \in {s, Hosted(s)}
IsHosted(notebook) == \E s \in SourceNotebooks : notebook = Hosted(s)

\* the Pleiss notebook with its default artifacts_dir cell tagged as well
RunPleissHosted_DefaultTagged ==
    RunCodeCell(Hosted("pleiss"), Stripped(Tagged(PleissNotebook, 64, "export")))

RunPreprocessingHosted == RunCodeCell(Hosted("preprocessing"), Stripped(PreprocessingNotebook))
RunZemelHosted == RunCodeCell(Hosted("zemel"), Stripped(ZemelNotebook))
RunPleissHosted == RunCodeCell(Hosted("pleiss"), Stripped(PleissNotebook))
RunKamiranHosted == RunCodeCell(Hosted("kamiran"), Stripped(KamiranNotebook))

InitExport ==
    /\ nb \in SourceNotebooks \cup {Hosted(s) : s \in SourceNotebooks}
    /\ pc = 1
    /\ ns = <<>> /\ heap = <<>> /\ out = <<>> /\ calls = <<>> /\ disk = <<>>

NextExport ==
    \/ RunPreprocessing \/ RunZemel \/ RunPleiss \/ RunKamiran
    \/ RunPreprocessingHosted \/ RunZemelHosted \/ RunPleissHosted \/ RunKamiranHosted

SpecExport == InitExport /\ [][NextExport]_vars

\* the cells of the run, and whether it has reached their end
CellsRun == IF IsHosted(nb) THEN Stripped(CellsOf(SourceOf(nb))) ELSE CellsOf(nb)
RanAll == pc = Len(CellsRun) + 1
ExportCells == TaggedCells(CellsOf(SourceOf(nb)), "export")
\* the files of the artifacts directory the logged calls read and write
FilesNamed ==
    {calls[k].file : k \in {j \in DOMAIN calls : calls[j].stage # "path"
                                                    /\ calls[j].file # <<>>}} \ UciFiles
\* what only the export cells bring: the names they bind and no other cell
\* binds
BoundIn(cells) ==
    UNION {UNION {cells[k].stmts[i].binds : i \in DOMAIN cells[k].stmts} : k \in DOMAIN cells}
OnlyExported ==
    BoundIn(SelectSeq(CellsOf(SourceOf(nb)), LAMBDA c : "export" \in c.tags))
        \ BoundIn(Stripped(CellsOf(SourceOf(nb))))

\* C12: a source notebook without its export-tagged cells runs top to bottom
\* with no NameError: nothing it binds or calls comes from an export cell,
\* export_plot is neither imported nor called, and artifacts_dir is bound by
\* the untagged default cell, under which every file it names lies; in the
\* source notebook export_plot is imported and called in export cells only,
\* and once it has run artifacts_dir is the export cell's override, under
\* which every file it names lies.
C12_ExportCellsStrip ==
    /\ IsHosted(nb) =>
           /\ NameErrors = {}
           /\ \A n \in DOMAIN ns : n \notin OnlyExported /\ ns[n].cell \notin ExportCells
           /\ \A k \in DOMAIN calls :
                  calls[k].fn # "export_plot" /\ calls[k].cell \notin ExportCells
           /\ \A file \in FilesNamed :
                  Prefix(file, Len(ns["artifacts_dir"].path)) = ns["artifacts_dir"].path
    /\ nb \in SourceNotebooks =>
           /\ "export_plot" \in DOMAIN ns => ns["export_plot"].cell \in ExportCells
           /\ \A k \in DOMAIN calls :
                  calls[k].fn = "export_plot" => calls[k].cell \in ExportCells
           /\ RanAll =>
                  /\ ns["artifacts_dir"].cell \in ExportCells
                  /\ \A file \in FilesNamed :
                         Prefix(file, Len(ns["artifacts_dir"].path))
                             = ns["artifacts_dir"].path

\* the hosted Pleiss notebook has run to its end on the default artifacts
\* directory
C12_Witness ==
    /\ nb = Hosted("pleiss") /\ RanAll
    /\ ns["artifacts_dir"].path = <<"..", "..", "..", "artifacts">>
    /\ FilesNamed # {}
    /\ OnlyExported = {"export_plot"}

(***************************************************************************)
(* The site's plot component: Loadable({loader, loading, timeout}) from    *)
(* siteplotly.js.  ns is the state of the mounted component, heap the      *)
(* import of react-plotly.js, the pending timer and the time since mount,  *)
(* out the views rendered so far.                                          *)
(***************************************************************************)
\* timeout: 10000
Timeout == 10000
\* the clock moves in steps of TickMs up to MaxClock
TickMs == 500
MaxClock == 11000

LoadingView == "<Loading />"
TimedOutView == "<blockquote>Error: Loading Plotly timed out.</blockquote>"
PlotView == "<Plotly />"

\* timedOut read from a prop the component is never given
LoadingComponent_TimedOutUnread(props) ==
    IF "timeout" \in DOMAIN props THEN TimedOutView ELSE LoadingView

\* loading: ({ timedOut }) => timedOut ? <blockquote>..</blockquote> : <Loading />
LoadingComponent(props) == IF props.timedOut THEN TimedOutView ELSE LoadingView

\* render() of the loadable component
Render(state) ==
    IF state.loading \/ state.error
    THEN LoadingComponent([timedOut |-> state.timedOut, error |-> state.error])
    ELSE PlotView

\* the views rendered so far, with the one the new state renders
Rendered(state) ==
    IF out # <<>> /\ out[Len(out)] = Render(state) THEN out ELSE Append(out, Render(state))

\* the import as an earlier plot of the page may have left it
InitPlot ==
    /\ nb = "siteplotly"
    /\ pc = "unmounted"
    /\ ns = <<>>
    /\ \E import \in {"none", "loaded", "failed"} :
           heap = [import |-> import, timer |-> FALSE, clock |-> 0, settled |-> import # "none"]
    /\ out = <<>> /\ calls = <<>> /\ disk = <<>>

\* <Plotly /> is mounted: the loader is started unless the module is there,
\* the timer is set while it loads, and the component renders
Mount ==
    /\ nb = "siteplotly" /\ pc = "unmounted"
    /\ LET loading == heap.import = "none"
           state == [loading |-> loading, loaded |-> heap.import = "loaded",
                     error |-> heap.import = "failed", timedOut |-> FALSE]
       IN /\ ns' = state
          /\ heap' = [heap EXCEPT !.import = IF loading THEN "loading" ELSE @,
                                  !.timer = loading]
          /\ out' = Rendered(state)
    /\ pc' = "mounted"
    /\ UNCHANGED <<nb, calls, disk>>

\* time passes, up to the moment the next timer is due; a timer that is due
\* runs before time moves on
Tick ==
    /\ nb = "siteplotly" /\ pc = "mounted"
    /\ heap.clock + TickMs <= MaxClock
    /\ ~(heap.timer /\ heap.clock >= Timeout)
    /\ heap' = [heap EXCEPT !.clock = IF heap.timer /\ @ + TickMs > Timeout
                                      THEN Timeout ELSE @ + TickMs]
    /\ UNCHANGED <<nb, pc, ns, out, calls, disk>>

\* the timeout timer fires: setState({ timedOut: true })
TimerFires ==
    /\ nb = "siteplotly" /\ pc = "mounted"
    /\ heap.timer /\ heap.clock >= Timeout
    /\ ns' = [ns EXCEPT !.timedOut = TRUE]
    /\ heap' = [heap EXCEPT !.timer = FALSE]
    /\ out' = Rendered(ns')
    /\ UNCHANGED <<nb, pc, calls, disk>>

\* the import settles: the state takes its outcome and the timer is cleared;
\* an unmounted component is left alone
Settle(outcome) ==
    /\ nb = "siteplotly" /\ pc \in {"mounted", "gone"}
    /\ heap.import = "loading"
    /\ heap' = [heap EXCEPT !.import = outcome, !.timer = FALSE,
                            !.settled = pc = "mounted" /\ heap.clock < Timeout]
    /\ IF pc = "mounted"
       THEN /\ ns' = [ns EXCEPT !.loading = FALSE, !.loaded = outcome = "loaded",
                                !.error = outcome = "failed"]
            /\ out' = Rendered(ns')
       ELSE UNCHANGED <<ns, out>>
    /\ UNCHANGED <<nb, pc, calls, disk>>
ImportLoads == Settle("loaded")
ImportFails == Settle("failed")

\* the component is unmounted: its timer is cleared
Unmount ==
    /\ nb = "siteplotly" /\ pc = "mounted"
    /\ pc' = "gone"
    /\ heap' = [heap EXCEPT !.timer = FALSE]
    /\ UNCHANGED <<nb, ns, out, calls, disk>>

NextPlot == Mount \/ Tick \/ TimerFires \/ ImportLoads \/ ImportFails \/ Unmount
SpecPlot == InitPlot /\ [][NextPlot]_vars

\* the view on the screen
View == out[Len(out)]

\* C13: the mounted plot component shows the Loading component while
\* react-plotly.js is loading and the timeout has not run out; once 10000 ms
\* have passed with the module still loading it shows "Error: Loading Plotly
\* timed out." in its place; once the module has loaded it shows the plot;
\* and a load that completes before 10000 ms never shows the error message.
C13_LazyPlotStates ==
    (nb = "siteplotly" /\ pc = "mounted") =>
        /\ View \in {LoadingView, TimedOutView, PlotView}
        /\ (heap.import = "loading" /\ heap.clock < Timeout) => View = LoadingView
        /\ (heap.import = "loading" /\ heap.clock > Timeout) => View = TimedOutView
        /\ heap.import = "loaded" => View = PlotView
        /\ (heap.import = "loaded" /\ heap.settled) =>
               \A k \in DOMAIN out : out[k] # TimedOutView

\* the error message was shown and then the module loaded: the plot is on
\* the screen
C13_Witness ==
    /\ nb = "siteplotly" /\ pc = "mounted"
    /\ out = <<LoadingView, TimedOutView, PlotView>>
    /\ heap.import = "loaded"

(***************************************************************************)
(* notebooks/recruiting/interventions/kamiran.ipynb, cell by cell, as it   *)
(* is in the repository: reject option classification learnt three times,  *)
(* for demographic parity, equalised odds and equal opportunity.           *)
(***************************************************************************)
KamiranImports ==
    RunCell("kamiran", "imports",
            Effect(Imported({"Path", "joblib", "pd", "RejectOptionClassification",
                             "StandardDataset", "demographic_parity_difference",
                             "equalized_odds_difference", "accuracy",
                             "group_bar_plots"}), <<>>, <<>>),
            "import_export")

KamiranImportExport ==
    RunCell("kamiran", "import_export",
            Effect(Imported({"export_plot"}), <<>>, <<>>), "artifacts_dir")

KamiranArtifactsDir ==
    RunCell("kamiran", "artifacts_dir",
            Effect("artifacts_dir" :> Path("../../../artifacts"), <<>>, <<>>),
            "artifacts_dir_override")

KamiranArtifactsDirOverride ==
    RunCell("kamiran", "artifacts_dir_override",
            Effect("artifacts_dir" :> Path("../../../../artifacts"), <<>>, <<>>),
            "load_data")

KamiranLoadData ==
    RunCell("kamiran", "load_data", RecruitingLoadDataCell(ns), "datasets")

KamiranDatasets ==
    RunCell("kamiran", "datasets", RecruitingDatasetsCell(ns, heap), "groups")

KamiranGroups == RunCell("kamiran", "groups", RecruitingGroupsCell, "load_model")

KamiranLoadModel ==
    RunCell("kamiran", "load_model", RecruitingLoadModelCell(ns, "baseline_model"),
            "predict")

\* bl_val_probs = baseline_model.predict_proba(val.drop("employed_yes", axis=1))[:, 1]
\* val_sds_pred = val_sds.copy(deepcopy=True); val_sds_pred.scores = ...
\* bl_test_probs = ...; bl_test_pred = bl_test_probs > 0.5
\* test_sds_pred = test_sds.copy(deepcopy=True); test_sds_pred.scores = ...
KamiranPredictCell(env, h, val_probs, test_probs) ==
    LET h1 == DeepCopy(h, env["val_sds"])
        val_sds_pred == NewRef(h)
        h2 == [h1 EXCEPT ![val_sds_pred].scores = Reshape(val_probs)]
        h3 == DeepCopy(h2, env["test_sds"])
        test_sds_pred == NewRef(h2)
        h4 == [h3 EXCEPT ![test_sds_pred].scores = Reshape(test_probs)]
    IN EffectH(("bl_val_probs" :> val_probs) @@ ("val_sds_pred" :> val_sds_pred)
               @@ ("bl_test_probs" :> test_probs)
               @@ ("bl_test_pred" :> VecGt(test_probs, 5))
               @@ ("test_sds_pred" :> test_sds_pred),
               <<>>,
               <<PredictProba(env["baseline_model"], DfDrop(env["val"], "employed_yes")),
                 PredictProba(env["baseline_model"],
                              DfDrop(env["test"], "employed_yes"))>>,
               h4)

KamiranPredict ==
    /\ nb = "kamiran" /\ pc = "predict"
    /\ \E val_probs \in Scores(ns["val"]), test_probs \in Scores(ns["test"]) :
           RunCell("kamiran", "predict",
                   KamiranPredictCell(ns, heap, val_probs, test_probs), "dp_metric")

\* metric_name = ...; metric_ub = ...; metric_lb = ..., the bounds in hundredths
KamiranMetricCell(metric_name, metric_ub, metric_lb) ==
    Effect(("metric_name" :> metric_name) @@ ("metric_ub" :> metric_ub)
           @@ ("metric_lb" :> metric_lb), <<>>, <<>>)

KamiranDpMetric ==
    RunCell("kamiran", "dp_metric",
            KamiranMetricCell("Statistical parity difference", 5, -5), "dp_fit")

\* RejectOptionClassification(unprivileged_groups=..., privileged_groups=...,
\*     low_class_thresh=0.01, high_class_thresh=0.99, num_class_thresh=100,
\*     num_ROC_margin=50, metric_name=..., metric_ub=..., metric_lb=...)
\* fitted on two datasets
RejectOptionClassification(env, true_ref, pred_ref) ==
    [class |-> "RejectOptionClassification",
     unprivileged_groups |-> env["unprivileged_groups"],
     privileged_groups |-> env["privileged_groups"],
     metric_name |-> env["metric_name"],
     metric_ub |-> env["metric_ub"],
     metric_lb |-> env["metric_lb"],
     fitted_on |-> <<true_ref, pred_ref>>]

\* ROC = RejectOptionClassification(...); ROC = ROC.fit(val_sds, val_sds_pred)
KamiranFitCell(env, h) ==
    Effect("ROC" :> RejectOptionClassification(env, env["val_sds"],
                                               env["val_sds_pred"]),
           <<>>,
           <<FitCall("RejectOptionClassification.fit", h,
                     env["val_sds"], env["val_sds_pred"])>>)

KamiranDpFit == RunCell("kamiran", "dp_fit", KamiranFitCell(ns, heap), "dp_apply")

\* test_sds_pred_transf = ROC.predict(test_sds_pred).copy(deepcopy=True): the
\* dataset predict returns, with the labels the intervention has drawn, and a
\* copy of it; test_pred_labels = test_sds_pred_transf.labels.flatten()
\* the apply cell binding test_pred_labels only the first time it runs
KamiranApplyCell_KeepsFirst(env, h, new_labels) ==
    LET h1 == DeepCopy(h, env["test_sds_pred"])
        predicted == NewRef(h)
        h2 == [h1 EXCEPT ![predicted].labels = Reshape(new_labels)]
        h3 == DeepCopy(h2, predicted)
        transf == NewRef(h2)
    IN EffectH(("test_sds_pred_transf" :> transf)
               @@ ("test_pred_labels" :>
                       IF "test_pred_labels" \in DOMAIN env
                       THEN env["test_pred_labels"]
                       ELSE Flatten(h3[transf].labels)),
               <<>>,
               <<[fn |-> "RejectOptionClassification.predict",
                  dataset |-> env["test_sds_pred"],
                  labels |-> h[env["test_sds_pred"]].labels,
                  scores |-> h[env["test_sds_pred"]].scores,
                  model |-> env["ROC"],
                  result |-> Flatten(h3[transf].labels)]>>,
               h3)

KamiranApplyCell(env, h, new_labels) ==
    LET h1 == DeepCopy(h, env["test_sds_pred"])
        predicted == NewRef(h)
        h2 == [h1 EXCEPT ![predicted].labels = Reshape(new_labels)]
        h3 == DeepCopy(h2, predicted)
        transf == NewRef(h2)
    IN EffectH(("test_sds_pred_transf" :> transf)
               @@ ("test_pred_labels" :> Flatten(h3[transf].labels)),
               <<>>,
               <<[fn |-> "RejectOptionClassification.predict",
                  dataset |-> env["test_sds_pred"],
                  labels |-> h[env["test_sds_pred"]].labels,
                  scores |-> h[env["test_sds_pred"]].scores,
                  model |-> env["ROC"],
                  result |-> Flatten(h3[transf].labels)]>>,
               h3)

KamiranDpApply ==
    /\ nb = "kamiran" /\ pc = "dp_apply"
    /\ \E new_labels \in Labels(NRows(ns["test"])) :
           RunCell("kamiran", "dp_apply", KamiranApplyCell(ns, heap, new_labels),
                   "dp_metrics")

\* test_features, test_race, test_employed, mask: bound by every metrics cell
KamiranTestBinds(env) ==
    ("test_features" :> DfDropAll(env["test"], <<"race_white", "employed_yes">>).rows)
    @@ ("test_race" :> Column(env["test"], "race_white"))
    @@ ("test_employed" :> Column(env["test"], "employed_yes"))
    @@ ("mask" :> VecEq(Column(env["test"], "race_white"), 1))

\* accuracy and demographic parity, before and after
KamiranDpMetricsCell(env) ==
    LET test_race == Column(env["test"], "race_white")
        test_employed == Column(env["test"], "employed_yes")
        bl_test_acc == accuracy(test_employed, env["bl_test_probs"])
        bl_test_dpd == demographic_parity_difference(
                           test_employed, AsNum(env["bl_test_pred"]), test_race)
        test_acc == accuracy(test_employed, env["test_pred_labels"])
        test_dpd == demographic_parity_difference(
                        test_employed, env["test_pred_labels"], test_race)
    IN Effect(KamiranTestBinds(env)
              @@ ("bl_test_acc" :> bl_test_acc) @@ ("bl_test_dpd" :> bl_test_dpd)
              @@ ("test_acc" :> test_acc) @@ ("test_dpd" :> test_dpd),
              <<Printed("Baseline accuracy: ", Term(".3f", bl_test_acc)),
                Printed("Accuracy: ", Term(".3f", test_acc)),
                Printed("Baseline demographic parity: ", FmtFixed(bl_test_dpd, 3)),
                Printed("Demographic parity: ", FmtFixed(test_dpd, 3))>>,
              <<MetricCall("demographic_parity_difference", test_employed,
                           AsNum(env["bl_test_pred"]), test_race),
                MetricCall("demographic_parity_difference", test_employed,
                           env["test_pred_labels"], test_race)>>)

KamiranDpMetrics ==
    RunCell("kamiran", "dp_metrics", KamiranDpMetricsCell(ns), "dp_subgroups")

\* accuracy and mean prediction of the white and of the black applicants
KamiranSubgroupsCell(env) ==
    LET race == Column(env["test"], "race_white")
        employed == Column(env["test"], "employed_yes")
        white == VecEq(race, 1)
        black == VecEq(race, 0)
        white_acc == accuracy(Masked(env["test_pred_labels"], white),
                              Masked(employed, white))
        black_acc == accuracy(Masked(env["test_pred_labels"], black),
                              Masked(employed, black))
        mean_black_score == Term("mean", Masked(env["test_pred_labels"], black))
        mean_white_score == Term("mean", Masked(env["test_pred_labels"], white))
    IN Effect(("white_acc" :> white_acc) @@ ("black_acc" :> black_acc)
              @@ ("mean_black_score" :> mean_black_score)
              @@ ("mean_white_score" :> mean_white_score),
              <<Printed("Black accuracy: ", Term(".3f", black_acc)),
                Printed("White accuracy: ", Term(".3f", white_acc)),
                Printed("Mean black score: ", Term(".3f", mean_black_score)),
                Printed("Mean white score: ", Term(".3f", mean_white_score))>>,
              <<>>)

KamiranDpSubgroups ==
    RunCell("kamiran", "dp_subgroups", KamiranSubgroupsCell(ns), "dp_bar")

\* dp_bar = group_bar_plots(test_pred_labels, test.race_white.map(...), ...)
KamiranDpBarCell(env) ==
    Effect("dp_bar" :>
               Plot("group_bar_plots",
                    [values |-> env["test_pred_labels"],
                     attribute |-> MapValues(Column(env["test"], "race_white"),
                                             "Black", "White")]),
           <<>>, <<ChartCall("group_bar_plots")>>)

KamiranDpBar == RunCell("kamiran", "dp_bar", KamiranDpBarCell(ns), "dp_export")

\* export_plot(figure, file)
KamiranExportCell(env, figure, file) ==
    Effect(<<>>, <<>>, <<[fn |-> "export_plot", file |-> file, plot |-> env[figure]]>>)

KamiranDpExport ==
    RunCell("kamiran", "dp_export", KamiranExportCell(ns, "dp_bar", "kamiran-dp.json"),
            "eo_metric")

KamiranEoMetric ==
    RunCell("kamiran", "eo_metric",
            KamiranMetricCell("Average odds difference", 1, -1), "eo_fit")

KamiranEoFit == RunCell("kamiran", "eo_fit", KamiranFitCell(ns, heap), "eo_apply")

KamiranEoApply ==
    /\ nb = "kamiran" /\ pc = "eo_apply"
    /\ \E new_labels \in Labels(NRows(ns["test"])) :
           RunCell("kamiran", "eo_apply", KamiranApplyCell(ns, heap, new_labels),
                   "eo_metrics")

\* accuracy and equalised odds, before and after
KamiranEoMetricsCell(env) ==
    LET test_race == Column(env["test"], "race_white")
        test_employed == Column(env["test"], "employed_yes")
        bl_test_acc == accuracy(test_employed, env["bl_test_probs"])
        bl_test_eod == equalized_odds_difference(
                           test_employed, AsNum(env["bl_test_pred"]), test_race)
        test_acc == accuracy(test_employed, env["test_pred_labels"])
        test_eod == equalized_odds_difference(
                        test_employed, env["test_pred_labels"], test_race)
    IN Effect(KamiranTestBinds(env)
              @@ ("bl_test_acc" :> bl_test_acc) @@ ("bl_test_eod" :> bl_test_eod)
              @@ ("test_acc" :> test_acc) @@ ("test_eod" :> test_eod),
              <<Printed("Baseline accuracy: ", Term(".3f", bl_test_acc)),
                Printed("Accuracy: ", Term(".3f", test_acc)),
                Printed("Baseline equalised odds (dist.): ", FmtFixed(bl_test_eod, 3)),
                Printed("Equalised odds (dist.): ", FmtFixed(test_eod, 3))>>,
              <<MetricCall("equalized_odds_difference", test_employed,
                           AsNum(env["bl_test_pred"]), test_race),
                MetricCall("equalized_odds_difference", test_employed,
                           env["test_pred_labels"], test_race)>>)

KamiranEoMetrics ==
    RunCell("kamiran", "eo_metrics", KamiranEoMetricsCell(ns), "eo_bar")

\* eo_bar = group_bar_plots(test_pred_labels, test.race_white.map(...),
\*                          groups=test.employed_yes, group_names=[...], ...)
KamiranEoBarCell(env) ==
    Effect("eo_bar" :>
               Plot("group_bar_plots",
                    [values |-> env["test_pred_labels"],
                     attribute |-> MapValues(Column(env["test"], "race_white"),
                                             "Black", "White"),
                     groups |-> Column(env["test"], "employed_yes"),
                     group_names |-> <<"Not employed", "Employed">>]),
           <<>>, <<ChartCall("group_bar_plots")>>)

KamiranEoBar == RunCell("kamiran", "eo_bar", KamiranEoBarCell(ns), "eo_export")

KamiranEoExport ==
    RunCell("kamiran", "eo_export", KamiranExportCell(ns, "eo_bar", "kamiran-eo.json"),
            "eopp_metric")

KamiranEoppMetric ==
    RunCell("kamiran", "eopp_metric",
            KamiranMetricCell("Equal opportunity difference", 1, -1), "eopp_fit")

KamiranEoppFit == RunCell("kamiran", "eopp_fit", KamiranFitCell(ns, heap), "eopp_apply")

KamiranEoppApply ==
    /\ nb = "kamiran" /\ pc = "eopp_apply"
    /\ \E new_labels \in Labels(NRows(ns["test"])) :
           RunCell("kamiran", "eopp_apply", KamiranApplyCell(ns, heap, new_labels),
                   "eopp_metrics")

\* accuracy and equal opportunity, before and after: equalised odds over the
\* rows of the applicants who were employed
KamiranEoppMetricsCell(env) ==
    LET test_race == Column(env["test"], "race_white")
        test_employed == Column(env["test"], "employed_yes")
        employed == VecEq(test_employed, 1)
        bl_test_acc == accuracy(test_employed, env["bl_test_probs"])
        bl_test_eoppd == equalized_odds_difference(
                             Masked(test_employed, employed),
                             AsNum(Masked(env["bl_test_pred"], employed)),
                             Masked(test_race, employed))
        test_acc == accuracy(test_employed, env["test_pred_labels"])
        test_eoppd == equalized_odds_difference(
                          Masked(test_employed, employed),
                          Masked(env["test_pred_labels"], employed),
                          Masked(test_race, employed))
    IN Effect(KamiranTestBinds(env)
              @@ ("bl_test_acc" :> bl_test_acc) @@ ("bl_test_eoppd" :> bl_test_eoppd)
              @@ ("test_acc" :> test_acc) @@ ("test_eoppd" :> test_eoppd),
              <<Printed("Baseline accuracy: ", Term(".3f", bl_test_acc)),
                Printed("Accuracy: ", Term(".3f", test_acc)),
                Printed("Baseline equal opportunity: ", FmtFixed(bl_test_eoppd, 3)),
                Printed("Equal opportunity: ", FmtFixed(test_eoppd, 3))>>,
              <<MetricCall("equalized_odds_difference",
                           Masked(test_employed, employed),
                           AsNum(Masked(env["bl_test_pred"], employed)),
                           Masked(test_race, employed)),
                MetricCall("equalized_odds_difference",
                           Masked(test_employed, employed),
                           Masked(env["test_pred_labels"], employed),
                           Masked(test_race, employed))>>)

KamiranEoppMetrics ==
    RunCell("kamiran", "eopp_metrics", KamiranEoppMetricsCell(ns), "eopp_bar")

\* eopp_bar = group_bar_plots(test_pred_labels[test.employed_yes == 1],
\*                            test.race_white[test.employed_yes == 1].map(...), ...)
KamiranEoppBarCell(env) ==
    LET employed == VecEq(Column(env["test"], "employed_yes"), 1)
    IN Effect("eopp_bar" :>
                  Plot("group_bar_plots",
                       [values |-> Masked(env["test_pred_labels"], employed),
                        attribute |-> MapValues(Masked(Column(env["test"], "race_white"),
                                                       employed),
                                                "Black", "White")]),
              <<>>, <<ChartCall("group_bar_plots")>>)

KamiranEoppBar == RunCell("kamiran", "eopp_bar", KamiranEoppBarCell(ns), "eopp_export")

KamiranEoppExport ==
    RunCell("kamiran", "eopp_export",
            KamiranExportCell(ns, "eopp_bar", "kamiran-eopp.json"), "done")

NextKamiran ==
    \/ KamiranImports \/ KamiranImportExport \/ KamiranArtifactsDir
    \/ KamiranArtifactsDirOverride \/ KamiranLoadData \/ KamiranDatasets
    \/ KamiranGroups \/ KamiranLoadModel \/ KamiranPredict
    \/ KamiranDpMetric \/ KamiranDpFit \/ KamiranDpApply \/ KamiranDpMetrics
    \/ KamiranDpSubgroups \/ KamiranDpBar \/ KamiranDpExport
    \/ KamiranEoMetric \/ KamiranEoFit \/ KamiranEoApply \/ KamiranEoMetrics
    \/ KamiranEoBar \/ KamiranEoExport
    \/ KamiranEoppMetric \/ KamiranEoppFit \/ KamiranEoppApply \/ KamiranEoppMetrics
    \/ KamiranEoppBar \/ KamiranEoppExport

\* the recruiting test file holds up to MaxKamiranRows applicants
MaxKamiranRows == 1

InitKamiran ==
    /\ nb = "kamiran"
    /\ pc = "imports"
    /\ \E n \in 1..MaxKamiranRows : \E test \in RecruitingFrames(n) :
           disk = RecruitingDisk(ArtifactsDir4, test)
    /\ ns = <<>>
    /\ heap = <<>>
    /\ out = <<>>
    /\ calls = <<>>

SpecKamiran == InitKamiran /\ [][NextKamiran]_vars

(***************************************************************************)
(* C14                                                                     *)
(***************************************************************************)
\* the column of the recruiting files that holds the applicant's sex
SexColumn == "sex_male"

\* the dataset objects the notebook has built and the group lists it has bound
KamiranDatasetNames == {"train_sds", "test_sds", "val_sds"}
KamiranGroupNames == {"privileged_groups", "unprivileged_groups"}

\* the attributes a list of groups is keyed by
GroupKeys(groups) == UNION {DOMAIN groups[i] : i \in DOMAIN groups}

\* the sex of the applicants of the test file, and of those who were employed
SexOfTest(env) ==
    {Column(env["test"], SexColumn),
     Masked(Column(env["test"], SexColumn),
            VecEq(Column(env["test"], "employed_yes"), 1))}

\* C14: the Kamiran notebook mitigates bias with respect to sex: the protected
\* attribute of each of its three datasets, the keys of the privileged and
\* unprivileged groups (as bound and as given to RejectOptionClassification)
\* and the sensitive feature of every fairness metric it computes are the
\* applicant's sex.
C14_MitigatesSex ==
    nb = "kamiran" =>
        /\ \A d \in KamiranDatasetNames \cap DOMAIN ns :
               heap[ns[d]].protected_attribute_names = <<SexColumn>>
        /\ \A g \in KamiranGroupNames \cap DOMAIN ns : GroupKeys(ns[g]) = {SexColumn}
        /\ "ROC" \in DOMAIN ns =>
               /\ GroupKeys(ns["ROC"].privileged_groups) = {SexColumn}
               /\ GroupKeys(ns["ROC"].unprivileged_groups) = {SexColumn}
        /\ \A i \in MetricCalls : calls[i].sensitive_features \in SexOfTest(ns)

\* the notebook has run to its end on a test file with a white applicant,
\* whose race column differs from the sex column
C14_Witness ==
    /\ nb = "kamiran"
    /\ pc = "done"
    /\ Cardinality(MetricCalls) = 6
    /\ Column(ns["test"], "race_white") # Column(ns["test"], SexColumn)

(***************************************************************************)
(* The rate cells of the Hardt notebooks by themselves: the kernel stands  *)
(* in front of the rates cell, and the namespace holds what the cells      *)
(* read, drawn from every test frame and every vector of predicted labels  *)
(* of up to MaxRateRows rows.                                              *)
(***************************************************************************)
\* the Adult notebook: the per-group false negative and false positive rates
HardtAdultRatesCell(env) ==
    LET mask == VecEq(Column(env["test"], "sex"), 1)
        salary == Column(env["test"], "salary")
        male_fnr == false_negative_rate(Masked(salary, mask),
                                        Flatten(Masked(env["test_scores"], mask)))
        female_fnr == false_negative_rate(Masked(salary, VecNot(mask)),
                                          Flatten(Masked(env["test_scores"], VecNot(mask))))
        fnr_diff == FracAbs(FracSub(male_fnr, female_fnr))
        male_fpr == false_positive_rate(Masked(salary, mask),
                                        Flatten(Masked(env["test_scores"], mask)))
        female_fpr == false_positive_rate(Masked(salary, VecNot(mask)),
                                          Flatten(Masked(env["test_scores"], VecNot(mask))))
        fpr_diff == FracAbs(FracSub(male_fpr, female_fpr))
    IN Effect(("mask" :> mask)
              @@ ("male_fnr" :> male_fnr) @@ ("female_fnr" :> female_fnr)
              @@ ("fnr_diff" :> fnr_diff)
              @@ ("male_fpr" :> male_fpr) @@ ("female_fpr" :> female_fpr)
              @@ ("fpr_diff" :> fpr_diff),
              <<Printed("Difference in false positive rates: ", FmtFixed(fpr_diff, 4)),
                Printed("Difference in false negative rates: ", FmtFixed(fnr_diff, 4))>>,
              <<>>)

HardtAdultRates == RunCell("hardt_adult", "rates", HardtAdultRatesCell(ns), "print")

\* the Adult notebook: the accuracies, and the print of the per-group rates
HardtAdultPrintCell(env) ==
    LET male == VecEq(Column(env["test"], "sex"), 1)
        female == VecEq(Column(env["test"], "sex"), 0)
        salary == Column(env["test"], "salary")
        acc == accuracy(Flatten(env["test_scores"]), salary)
        female_acc == accuracy(Masked(Flatten(env["test_scores"]), female),
                               Masked(salary, female))
        male_acc == accuracy(Masked(Flatten(env["test_scores"]), male),
                             Masked(salary, male))
    IN Effect(("acc" :> acc) @@ ("female_acc" :> female_acc) @@ ("male_acc" :> male_acc),
              <<Printed("Accuracy: ", Term(".3f", acc)),
                Printed("Female accuracy: ", Term(".3f", female_acc)),
                Printed("Male accuracy: ", Term(".3f", male_acc)),
                Printed("Male false negative rate ", FmtFixed(env["male_fnr"], 4)),
                Printed("Female false negative rate ", FmtFixed(env["female_fnr"], 4)),
                Printed("Male false positive rate ", FmtFixed(env["male_fpr"], 4)),
                Printed("Female false positive rate ", FmtFixed(env["female_fpr"], 4))>>,
              <<>>)

HardtAdultPrint == RunCell("hardt_adult", "print", HardtAdultPrintCell(ns), "eod")

\* the Adult notebook: eod = equalized_odds_difference(test.salary,
\*     test_scores.flatten(), sensitive_features=test.sex)
HardtAdultEodCell(env) ==
    LET eod == equalized_odds_difference(Column(env["test"], "salary"),
                                         Flatten(env["test_scores"]),
                                         Column(env["test"], "sex"))
    IN Effect("eod" :> eod,
              <<Printed("Equalised odds: ", FmtFixed(eod, 4))>>,
              <<MetricCall("equalized_odds_difference",
                           Column(env["test"], "salary"),
                           Flatten(env["test_scores"]),
                           Column(env["test"], "sex"))>>)

HardtAdultEod == RunCell("hardt_adult", "eod", HardtAdultEodCell(ns), "eo_bar")

\* the test file holds up to MaxRateRows rows
MaxRateRows == 4

InitRates ==
    /\ \/ /\ nb = "hardt"
          /\ \E n \in 1..MaxRateRows :
               \E test \in RecruitingFrames(n), labels \in Labels(n) :
                 ns = ("test" :> test) @@ ("test_scores" :> Reshape(labels))
       \/ /\ nb = "hardt_adult"
          /\ \E n \in 1..MaxRateRows :
               \E test \in AdultFrames(n), labels \in Labels(n) :
                 ns = ("test" :> test) @@ ("test_scores" :> Reshape(labels))
    /\ pc = "rates"
    /\ heap = <<>>
    /\ out = <<>>
    /\ calls = <<>>
    /\ disk = <<>>

NextRates ==
    \/ HardtRates \/ HardtPrint \/ HardtEod
    \/ HardtAdultRates \/ HardtAdultPrint \/ HardtAdultEod

SpecRates == InitRates /\ [][NextRates]_vars

(***************************************************************************)
(* C15                                                                     *)
(***************************************************************************)
\* the columns a Hardt notebook groups by and scores against
RateGroup == IF nb = "hardt" THEN "race_white" ELSE "sex"
RateLabel == IF nb = "hardt" THEN "employed_yes" ELSE "salary"
\* the rates the rates cell has bound, group 1 first
RateOf1(rate) == IF nb = "hardt" THEN ns["white_" \o rate] ELSE ns["male_" \o rate]
RateOf0(rate) == IF nb = "hardt" THEN ns["black_" \o rate] ELSE ns["female_" \o rate]

\* each group has at least one positive and one negative
BothOutcomesInBothGroups ==
    \A g \in {0, 1}, y \in {0, 1} :
        \E i \in DOMAIN ns["test"].rows :
            /\ ns["test"].rows[i][RateGroup] = g
            /\ ns["test"].rows[i][RateLabel] = y

\* the figures printed after a text
PrintedAfter(text) == {out[i].value : i \in {j \in DOMAIN out : out[j].text = text}}

MaxInt(a, b) == IF a >= b THEN a ELSE b
FracEq(f, g) == f[1] * g[2] = g[1] * f[2]

FailedChecks ==
    {out[k].cell : k \in {j \in DOMAIN out : IsError(out[j], "AssertionError")}}
\* the to_csv calls of this run
WriteCalls == {i \in DOMAIN calls : calls[i].fn = "to_csv"}

\* C16: when one of the two assertion cells of the preprocessing notebook
\* raises (the category sets differ, or the train and test column lists
\* differ), the run stops there: no later cell runs, no to_csv call has been
\* made, and none of the six CSV files has been created or overwritten.
C16_FailedCheckWritesNothing ==
    (nb = "preprocessing" /\ FailedChecks # {}) =>
        /\ FailedChecks \in {{"categories_check"}, {"columns_check"}}
        /\ pc = "error"
        /\ WriteCalls = {}
        /\ Written = {}
        /\ ProcessedFiles \cap DOMAIN disk = {}

\* the column assert has raised in a run whose category asserts had passed
C16_Witness ==
    /\ nb = "preprocessing"
    /\ FailedChecks = {"columns_check"}
    /\ "test_df" \in DOMAIN ns
    /\ ns["train_df"].cols # ns["test_df"].cols

\* the category asserts have raised
C16_CategoriesWitness ==
    /\ nb = "preprocessing"
    /\ FailedChecks = {"categories_check"}
    /\ ValueSet(ns["train"], "education") # ValueSet(ns["test"], "education")

(***************************************************************************)
(* The notebooks with several sections, each run from a fresh kernel, one  *)
(* cell at a time from top to bottom.                                      *)
(***************************************************************************)
InitSections ==
    \/ InitKamiran
    \/ InitPleiss /\ ns = <<>> /\ heap = <<>> /\ out = <<>> /\ calls = <<>>

NextSections == NextKamiran \/ NextPleiss

SpecSections == InitSections /\ [][NextSections]_vars

(***************************************************************************)
(* C17                                                                     *)
(***************************************************************************)
\* the sections of a notebook in their order: the metric or cost constraint
\* of the section, its cells in their order (the parameter cell, the fit
\* cell, the apply cell, the metrics cell and the cells after it), the cell
\* that runs after the section, and the figures the section binds with the
\* predictions each is drawn from
KamiranSections ==
    <<[param |-> "Statistical parity difference",
       cells |-> <<"dp_metric", "dp_fit", "dp_apply", "dp_metrics", "dp_subgroups",
                   "dp_bar", "dp_export">>,
       end |-> "eo_metric",
       plots |-> {"dp_bar"}],
      [param |-> "Average odds difference",
       cells |-> <<"eo_metric", "eo_fit", "eo_apply", "eo_metrics", "eo_bar",
                   "eo_export">>,
       end |-> "eopp_metric",
       plots |-> {"eo_bar"}],
      [param |-> "Equal opportunity difference",
       cells |-> <<"eopp_metric", "eopp_fit", "eopp_apply", "eopp_metrics", "eopp_bar",
                   "eopp_export">>,
       end |-> "done",
       plots |-> {"eopp_bar"}]>>

PleissSections ==
    <<[param |-> "fnr",
       cells |-> <<"eopp_constraint", "eopp_fit", "eopp_apply", "eopp_metrics", "bl_cal",
                   "eopp_cal", "eopp_bar", "eopp_export">>,
       end |-> "eo_constraint",
       plots |-> {"eopp_bar"}],
      [param |-> "weighted",
       cells |-> <<"eo_constraint", "eo_fit", "eo_apply", "eo_metrics", "eo_cal",
                   "bl_eo_bar", "eo_bar", "eo_export">>,
       end |-> "done",
       plots |-> {"bl_eo_bar", "eo_bar"}]>>

SectionsOf(notebook) == IF notebook = "kamiran" THEN KamiranSections ELSE PleissSections

\* the names a notebook gives the parameter, the intervention, the dataset
\* the intervention returns and the predictions read from it
ParamName == IF nb = "kamiran" THEN "metric_name" ELSE "cost_constraint"
ModelName == IF nb = "kamiran" THEN "ROC" ELSE "cpp"
ModelParam(model) ==
    IF nb = "kamiran" THEN model.metric_name ELSE model.cost_constraint
TransformedName ==
    IF nb = "kamiran" THEN "test_sds_pred_transf" ELSE "test_sds_pred_tranf"
SectionPred == IF nb = "kamiran" THEN ns["test_pred_labels"] ELSE ns["test_pred"]
\* the predictions as the apply cell reads them from the dataset
ReadFrom(dataset) ==
    IF nb = "kamiran" THEN Flatten(dataset.labels)
    ELSE VecGt(Flatten(dataset.scores), 5)

\* the apply cell of section k has run and no cell of a later section has
AfterApply(k) ==
    LET s == SectionsOf(nb)[k]
    IN pc \in {s.cells[j] : j \in 4..Len(s.cells)} \cup {s.end}
\* the metrics cell of section k has run as well
AfterMetrics(k) ==
    LET s == SectionsOf(nb)[k]
    IN pc \in {s.cells[j] : j \in 5..Len(s.cells)} \cup {s.end}

SetMax(S) == CHOOSE x \in S : \A y \in S : y <= x
\* the rows of the employed applicants
EmployedRows == VecEq(Column(ns["test"], "employed_yes"), 1)
\* a vector as a metric gets it: whole or over the employed applicants, as
\* numbers
AsGiven(v) == {v, Masked(v, EmployedRows)}
\* the section's predictions as numbers: Kamiran's labels are numbers
SectionPredNum == IF nb = "kamiran" THEN SectionPred ELSE AsNum(SectionPred)
\* the values a figure of the current section is drawn from
FigureValues(name) ==
    IF name = "bl_eo_bar" THEN ns["bl_test_pred"]
    ELSE IF name = "eopp_bar"
         THEN IF nb = "kamiran" THEN Masked(SectionPred, EmployedRows)
              ELSE Masked(ns["bl_test_pred"], EmployedRows)
                   \o Masked(SectionPred, EmployedRows)
         ELSE SectionPred

\* the intervention bound is the one built in section k with the section's
\* parameter, fitted in section k and applied after that, and the predictions
\* bound are read from the dataset this application returned
OwnPredictions(k) ==
    /\ ns[ParamName] = SectionsOf(nb)[k].param
    /\ ModelParam(ns[ModelName]) = SectionsOf(nb)[k].param
    /\ Cardinality(FitCalls) = k
    /\ Cardinality(PredictCalls) = k
    /\ SetMax(FitCalls) < SetMax(PredictCalls)
    /\ \A i \in PredictCalls \ {SetMax(PredictCalls)} : i < SetMax(FitCalls)
    /\ ns[TransformedName] = Len(heap)
    /\ SectionPred = ReadFrom(heap[ns[TransformedName]])

\* the two calls of the metrics cell of the current section score the
\* baseline predictions and the section's predictions
OwnMetrics(k) ==
    /\ Cardinality(MetricCalls) = 2 * k
    /\ LET new == SetMax(MetricCalls)
           bl == SetMax(MetricCalls \ {new})
       IN /\ calls[bl].y_pred \in AsGiven(AsNum(ns["bl_test_pred"]))
          /\ calls[new].y_pred \in AsGiven(SectionPredNum)
          /\ bl > SetMax(PredictCalls)

\* the baseline predictions are the ones of the predict cell: what the
\* baseline's dataset holds, and what every application was given
BaselineKept ==
    /\ ns["bl_test_probs"] = Flatten(heap[ns["test_sds_pred"]].scores)
    /\ ns["bl_test_pred"] = VecGt(ns["bl_test_probs"], 5)
    /\ \A i \in PredictCalls :
           /\ calls[i].dataset = ns["test_sds_pred"]
           /\ calls[i].scores = Reshape(ns["bl_test_probs"])

\* C17: in a run of the Kamiran or of the Pleiss notebook from top to
\* bottom, the metrics cell and the figures of every section read the
\* predictions of the intervention built with the section's metric or cost
\* constraint, fitted and applied in that section, never those of another
\* section, and the baseline predictions are the same in all sections.
C17_SectionsReadOwnPredictions ==
    nb \in {"kamiran", "pleiss"} =>
        /\ "bl_test_pred" \in DOMAIN ns => BaselineKept
        /\ \A k \in DOMAIN SectionsOf(nb) :
               /\ AfterApply(k) => OwnPredictions(k)
               /\ AfterMetrics(k) => OwnMetrics(k)
               /\ AfterApply(k) =>
                      \A p \in SectionsOf(nb)[k].plots \cap DOMAIN ns :
                          ns[p].args.values = FigureValues(p)

\* the Kamiran notebook has run to its end, and what the intervention
\* predicted in the equalised odds section differs from what it predicted in
\* the sections before and after it, and from the baseline
C17_Witness ==
    /\ nb = "kamiran" /\ pc = "done"
    /\ LET p == SetToSeq(PredictCalls)
       IN /\ Len(p) = 3
          /\ \E i, j, k \in PredictCalls :
                 /\ i < j /\ j < k
                 /\ calls[i].result # calls[j].result
                 /\ calls[j].result # calls[k].result
                 /\ calls[j].result # AsNum(ns["bl_test_pred"])

(***************************************************************************)
(* The preprocessing notebook run to its end, and then the FTU notebook    *)
(* opened by a fresh kernel in its own directory, on the files the first   *)
(* run has left.                                                           *)
(***************************************************************************)
\* the directories of the two notebooks in the repository
PrepDir == <<"src", "notebooks", "finance">>
FtuDir == <<"notebooks", "finance", "interventions">>

\* the components of a string between its slashes
RECURSIVE SplitFrom(_, _, _)
SplitFrom(s, i, part) ==
    IF i > Len(s) THEN <<part>>
    ELSE IF SubSeq(s, i, i) = "/" THEN <<part>> \o SplitFrom(s, i + 1, "")
    ELSE SplitFrom(s, i + 1, part \o SubSeq(s, i, i))
SplitPath(s) == SplitFrom(s, 1, "")

\* the components of a path
RECURSIVE PathParts(_)
PathParts(path) ==
    IF path = <<>> THEN <<>> ELSE SplitPath(Head(path)) \o PathParts(Tail(path))

\* the file a relative path names for a process working in directory `at`
RECURSIVE Walk(_, _)
Walk(at, parts) ==
    IF parts = <<>> THEN at
    ELSE IF Head(parts) = ".." THEN Walk(SubSeq(at, 1, Len(at) - 1), Tail(parts))
    ELSE IF Head(parts) \in {"", "."} THEN Walk(at, Tail(parts))
    ELSE Walk(Append(at, Head(parts)), Tail(parts))
Resolve(at, path) == Walk(at, PathParts(path))

\* the paths of the files of the first run as the second process names
\* them, the baseline model committed to the repository among them
OpenedDisk ==
    LET paths == {Div(AdultProcessed(ArtifactsDir3), name) :
                     name \in {"train.csv", "val.csv", "test.csv", "train-one-hot.csv",
                               "val-one-hot.csv", "test-one-hot.csv"}}
        Left(p) == {q \in Written : Resolve(PrepDir, q) = Resolve(FtuDir, p)}
    IN [p \in {q \in paths : Left(q) # {}} |-> disk[CHOOSE q \in Left(p) : TRUE]]
       @@ (Div(FinanceModels(ArtifactsDir3), "baseline.pkl") :> Pickle("baseline"))

\* a fresh kernel opens the FTU notebook after the preprocessing run
OpenFtu ==
    /\ nb = "preprocessing" /\ pc = "done"
    /\ nb' = "ftu"
    /\ pc' = "imports"
    /\ ns' = <<>>
    /\ disk' = OpenedDisk
    /\ UNCHANGED <<heap, out, calls>>

NextAdultFiles ==
    \/ NextPreprocessing
    \/ OpenFtu
    \/ FtuImports \/ FtuArtifactsDir \/ FtuLoadData \/ FtuLoadModel
    \/ FtuBaselinePredict \/ FtuDataSets

SpecAdultFiles == InitPreprocessing /\ [][NextAdultFiles]_vars

(***************************************************************************)
(* C18                                                                     *)
(***************************************************************************)
\* the one-hot file of a split, in the repository
OneHotFile(split) ==
    <<"artifacts", "data", "adult", "processed", split \o "-one-hot.csv">>
\* the to_csv calls of the preprocessing run that wrote a file
WritesOf(file) ==
    {i \in DOMAIN calls :
        calls[i].fn = "to_csv" /\ Resolve(PrepDir, calls[i].path) = file}
\* the path the FTU notebook reads a split from
ReadPath(split) == Div(Div(ns["data_dir"], "processed"), split \o "-one-hot.csv")
BinaryColumns == {"sex", "salary"}

\* C18: the three files an Adult intervention notebook reads,
\* train-one-hot.csv, val-one-hot.csv and test-one-hot.csv under
\* data/adult/processed, are files the preprocessing notebook has written:
\* each by one to_csv call of its run, all three with the same column list in
\* the same order, each with the columns sex and salary; and the frames the
\* FTU notebook loads are these files, with these columns.
C18_ReadsWhatPreprocessingWrites ==
    /\ (nb = "preprocessing" /\ pc = "done") =>
           \A s \in Splits :
               /\ \E p \in Written :
                      /\ Resolve(PrepDir, p) = OneHotFile(s)
                      /\ disk[p].cols = disk[Div(AdultProcessed(ArtifactsDir3),
                                                 "train-one-hot.csv")].cols
                      /\ BinaryColumns \subseteq Range(disk[p].cols)
               /\ Cardinality(WritesOf(OneHotFile(s))) = 1
    /\ (nb = "ftu" /\ "test" \in DOMAIN ns) =>
           \A s \in Splits :
               /\ Resolve(FtuDir, ReadPath(s)) = OneHotFile(s)
               /\ \E i \in WritesOf(OneHotFile(s)) : calls[i].columns = ns[s].cols
               /\ ns[s] = disk[ReadPath(s)]
               /\ ns[s].cols = ns["train"].cols
               /\ BinaryColumns \subseteq Range(ns[s].cols)
    /\ (nb = "ftu" /\ "test_ftu" \in DOMAIN ns) =>
           \A s \in Splits :
               /\ "sex" \notin Range(ns[s \o "_ftu"].cols)
               /\ Len(ns[s \o "_ftu"].cols) = Len(ns[s].cols) - 1

\* the FTU notebook has loaded the three files of a preprocessing run and
\* dropped sex from them; the files hold one-hot columns besides the binary
\* ones, and the train and test files hold rows
C18_Witness ==
    /\ nb = "ftu" /\ pc = "load_ftu_model"
    /\ "test_ftu" \in DOMAIN ns
    /\ NRows(ns["train"]) > 0 /\ NRows(ns["test"]) > 0
    /\ \E c \in Range(ns["test"].cols) : c = "age"
    /\ Len(ns["test"].cols) > 6

====
